---- MODULE Spec2Model ----
(***************************************************************************)
(* A model of the matching-and-orchestration engine of wpb-bot:            *)
(*   src/src/plan_bot.py  process_post, reply, create_db_record,           *)
(*                        get_trigger_line, process_flags                  *)
(*   src/src/matching.py  Preprocess, Strategy, RuleStrategy               *)
(* Texts are TLA+ strings handled character by character (TLC applies Len, *)
(* SubSeq and \o to strings).  Python's None is the empty tuple <<>> and a *)
(* value that may be None is wrapped in a one-element tuple.               *)
(***************************************************************************)
EXTENDS Integers, Sequences, FiniteSets, TLC

VARIABLES
    post_ids_processed, \* the run's set of message ids (plan_bot.py:213-223)
    posts_db,           \* the audit store: document key -> document
    pc,                 \* position of the current process_post invocation
    post,               \* the message the current invocation was called with
    args,               \* its keyword arguments send, simulate, skip_tracking
    skip_reason,        \* local of process_post
    post_text,          \* local of process_post
    options,            \* local of process_post
    match_info,         \* local of process_post
    update,             \* local post_record_update of process_post
    reply_string,       \* local of process_post (structured)
    did_reply,          \* local of process_post
    exc,                \* the exception the invocation ended with, if any
    log,                \* calls the current invocation made, in order
    seen,               \* history: ids process_post was invoked with before
    again,              \* history: the current invocation's id was in seen
    g_in,               \* inputs of the pure-function specifications
    g_out               \* their results

vars == <<post_ids_processed, posts_db, pc, post, args, skip_reason, post_text,
          options, match_info, update, reply_string, did_reply, exc, log,
          seen, again, g_in, g_out>>

pvars == <<post_ids_processed, posts_db, pc, post, args, skip_reason, post_text,
           options, match_info, update, reply_string, did_reply, exc, log,
           seen, again>>

-----------------------------------------------------------------------------
(* Python values *)

None == <<>>

Some(x) == <<x>>

IsNone(v) == v = <<>>

Val(v) == v[1]

\* d.get(k): the value under k, None when the key is absent
Get(d, k) == IF k \in DOMAIN d THEN d[k] ELSE None

\* dict.update / field-level merge of u into d
Merge(d, u) ==
    [k \in (DOMAIN d) \cup (DOMAIN u) |-> IF k \in DOMAIN u THEN u[k] ELSE d[k]]

-----------------------------------------------------------------------------
(* Characters and strings *)

Char(s, i) == SubSeq(s, i, i)

UpperLetters == "ABCDEFGHIJKLMNOPQRSTUVWXYZ"

LowerLetters == "abcdefghijklmnopqrstuvwxyz"

DigitChars == "0123456789"

CharsOf(s) == {Char(s, i) : i \in 1..Len(s)}

UpperSet == CharsOf(UpperLetters)

LowerSet == CharsOf(LowerLetters)

DigitSet == CharsOf(DigitChars)

\* \w of Python's re on the ASCII texts of the model
WordChars == UpperSet \cup LowerSet \cup DigitSet \cup {"_"}

WhiteSpace == {" ", "\n", "\t"}

LowerChar(c) ==
    IF c \in UpperSet
    THEN Char(LowerLetters, CHOOSE i \in 1..26 : Char(UpperLetters, i) = c)
    ELSE c

RECURSIVE Lower(_)
Lower(s) == IF s = "" THEN "" ELSE LowerChar(Head(s)) \o Lower(Tail(s))

\* every character of s lies in the class cls
AllIn(s, cls) == \A i \in 1..Len(s) : Char(s, i) \in cls

AllNotIn(s, cls) == \A i \in 1..Len(s) : Char(s, i) \notin cls

\* re.IGNORECASE comparison of the slice of s at i with the lower-case phrase
MatchesAt(s, i, phrase) ==
    /\ i >= 1
    /\ i + Len(phrase) - 1 <= Len(s)
    /\ Lower(SubSeq(s, i, i + Len(phrase) - 1)) = phrase

\* the first index >= i of s whose character is in cls; Len(s) + 1 if none
RECURSIVE SkipWhileNot(_, _, _)
SkipWhileNot(s, i, cls) ==
    IF i > Len(s) \/ Char(s, i) \in cls THEN i ELSE SkipWhileNot(s, i + 1, cls)

\* the first index >= i of s whose character is not in cls; Len(s) + 1 if none
RECURSIVE SkipWhile(_, _, _)
SkipWhile(s, i, cls) ==
    IF i > Len(s) \/ Char(s, i) \notin cls THEN i ELSE SkipWhile(s, i + 1, cls)

\* str.split(): the maximal runs of non-whitespace characters, in order
RECURSIVE Split(_)
Split(s) ==
    LET b == SkipWhile(s, 1, WhiteSpace)
        e == SkipWhileNot(s, b, WhiteSpace)
    IN  IF b > Len(s) THEN <<>>
        ELSE <<SubSeq(s, b, e - 1)>> \o Split(SubSeq(s, e, Len(s)))

\* " ".join(words)
RECURSIVE Join(_)
Join(words) ==
    IF words = <<>> THEN ""
    ELSE IF Len(words) = 1 THEN words[1]
    ELSE words[1] \o " " \o Join(Tail(words))

-----------------------------------------------------------------------------
(* Normalizer: plan_bot.py get_trigger_line and process_flags *)

TRIGGER_WORD == "!warrenplanbot"

\* [^-\w] is every character outside this class
WordOrHyphen == WordChars \cup {"-"}

\* [!?.]
Terminals == {"!", "?", "."}

\* the trigger word at i followed by at least one character of [^-\w]
TriggerAt(text, i) ==
    /\ MatchesAt(text, i, TRIGGER_WORD)
    /\ i + Len(TRIGGER_WORD) <= Len(text)
    /\ Char(text, i + Len(TRIGGER_WORD)) \notin WordOrHyphen

\* re.findall of  trigger[^-\w]+([^!?.]*[!?.]?)  from index pos on: the
\* captured groups of the successive non-overlapping leftmost matches
RECURSIVE FindAllTrigger(_, _)
FindAllTrigger(text, pos) ==
    LET starts == {i \in pos..Len(text) : TriggerAt(text, i)}
    IN  IF starts = {} THEN <<>>
        ELSE LET i == CHOOSE x \in starts : \A y \in starts : x <= y
                 j == SkipWhileNot(text, i + Len(TRIGGER_WORD), WordOrHyphen)
                 k == SkipWhileNot(text, j, Terminals)
                 e == IF k <= Len(text) THEN k + 1 ELSE k
             IN  <<SubSeq(text, j, e - 1)>> \o FindAllTrigger(text, e)

get_trigger_line(text) ==
    LET matches == FindAllTrigger(text, 1)
    IN  IF matches = <<>> THEN "" ELSE matches[Len(matches)]

\* re.search("!warrenplanbot", text, re.IGNORECASE)
HasTrigger(text) == \E i \in 1..Len(text) : MatchesAt(text, i, TRIGGER_WORD)

\* the option strings of the parser and the attribute each one sets
OptionDest ==
    [o \in {"--parent", "--tell-parent", "--why-warren", "--state-of-race",
            "--state-of-the-race", "--status-check"} |->
        CASE o \in {"--parent", "--tell-parent"} -> "parent"
          [] o = "--why-warren" -> "why_warren"
          [] OTHER -> "state_of_race"]

OptionStrings == DOMAIN OptionDest

StartsWith(s, prefix) ==
    Len(prefix) <= Len(s) /\ SubSeq(s, 1, Len(prefix)) = prefix

IndexOfEq(tok) == SkipWhileNot(tok, 1, {"="})

\* the part of an argument before its first "="
BeforeEq(tok) == SubSeq(tok, 1, IndexOfEq(tok) - 1)

HasEq(tok) == IndexOfEq(tok) <= Len(tok)

\* argparse's _negative_number_matcher  ^-\d+$|^-\d*\.\d+$
NegativeNumber(tok) ==
    /\ Len(tok) >= 2
    /\ Head(tok) = "-"
    /\ LET body == Tail(tok)
           dot == SkipWhileNot(body, 1, {"."})
       IN  \/ AllIn(body, DigitSet)
           \/ /\ dot < Len(body)
              /\ AllIn(SubSeq(body, 1, dot - 1), DigitSet)
              /\ AllIn(SubSeq(body, dot + 1, Len(body)), DigitSet)

\* argparse's _get_option_tuples: the option strings an abbreviation could
\* mean (only arguments that start with two prefix characters abbreviate here,
\* since every option string of this parser starts with "--")
OptionTuples(tok) ==
    IF Len(tok) >= 2 /\ Char(tok, 2) = "-"
    THEN {o \in OptionStrings : StartsWith(o, BeforeEq(tok))}
    ELSE {}

\* argparse's _parse_optional for one argument that is not "--":
\* [kind |-> "positional" | "option" | "unknown" | "error", ...]
ParseOptional(tok) ==
    IF tok = "" \/ Head(tok) # "-" THEN [kind |-> "positional"]
    ELSE IF tok \in OptionStrings
    THEN [kind |-> "option", dest |-> OptionDest[tok], explicit |-> FALSE]
    ELSE IF Len(tok) = 1 THEN [kind |-> "positional"]
    ELSE IF HasEq(tok) /\ BeforeEq(tok) \in OptionStrings
    THEN [kind |-> "option", dest |-> OptionDest[BeforeEq(tok)], explicit |-> TRUE]
    ELSE IF Cardinality(OptionTuples(tok)) > 1 THEN [kind |-> "error"]
    ELSE IF Cardinality(OptionTuples(tok)) = 1
    THEN [kind |-> "option",
          dest |-> OptionDest[CHOOSE o \in OptionTuples(tok) : TRUE],
          explicit |-> HasEq(tok)]
    ELSE IF NegativeNumber(tok) THEN [kind |-> "positional"]
    ELSE [kind |-> "unknown"]

\* the index of the first "--" argument; Len(toks) + 1 if none
RECURSIVE FirstDashDash(_, _)
FirstDashDash(toks, i) ==
    IF i > Len(toks) \/ toks[i] = "--" THEN i ELSE FirstDashDash(toks, i + 1)

\* a slip: the "--" that ends the options is taken out of the rest
RECURSIVE ConsumeArgs_DropDashDash(_, _, _, _)
ConsumeArgs_DropDashDash(toks, i, dd, opts) ==
    IF i > Len(toks) THEN [error |-> FALSE, rest |-> <<>>, options |-> opts]
    ELSE IF i = dd
    THEN [error |-> FALSE, rest |-> SubSeq(toks, i + 1, Len(toks)), options |-> opts]
    ELSE IF ParseOptional(toks[i]).kind = "positional"
    THEN [error |-> FALSE, rest |-> SubSeq(toks, i, Len(toks)), options |-> opts]
    ELSE LET p == ParseOptional(toks[i])
         IN  IF p.kind = "unknown" THEN ConsumeArgs_DropDashDash(toks, i + 1, dd, opts)
             ELSE IF p.explicit
             THEN [error |-> TRUE, rest |-> <<>>, options |-> {}]
             ELSE ConsumeArgs_DropDashDash(toks, i + 1, dd, opts \cup {p.dest})

\* parse_known_args: optionals are consumed from the front; the REMAINDER
\* positional "rest" takes everything from the first positional argument (or
\* "--") on, option strings included.
RECURSIVE ConsumeArgs(_, _, _, _)
ConsumeArgs(toks, i, dd, opts) ==
    IF i > Len(toks) THEN [error |-> FALSE, rest |-> <<>>, options |-> opts]
    ELSE IF i >= dd \/ ParseOptional(toks[i]).kind = "positional"
    THEN [error |-> FALSE, rest |-> SubSeq(toks, i, Len(toks)), options |-> opts]
    ELSE LET p == ParseOptional(toks[i])
         IN  IF p.kind = "unknown" THEN ConsumeArgs(toks, i + 1, dd, opts)
             ELSE IF p.explicit
             THEN [error |-> TRUE, rest |-> <<>>, options |-> {}]
             ELSE ConsumeArgs(toks, i + 1, dd, opts \cup {p.dest})

\* process_flags(text): [error, remaining_text, options]; error is the
\* SystemExit of parser.error (an ambiguous abbreviation anywhere before "--",
\* or an explicit "=value" on a consumed store_true option)
process_flags(text) ==
    LET toks == Split(text)
        dd == FirstDashDash(toks, 1)
        ambiguous == \E i \in 1..(dd - 1) : ParseOptional(toks[i]).kind = "error"
        r == ConsumeArgs(toks, 1, dd, {})
    IN  IF ambiguous \/ r.error
        THEN [error |-> TRUE, remaining_text |-> "", options |-> {}]
        ELSE [error |-> FALSE, remaining_text |-> Join(r.rest), options |-> r.options]


-----------------------------------------------------------------------------
(* Text Preprocessor: matching.py Preprocess *)

\* the entries of gensim's STOPWORDS that occur in the texts of the model
GENSIM_STOPWORDS ==
    {"the", "me", "of", "is", "over", "show", "about", "what", "why", "and",
     "for", "her", "all", "a", "to"}

CUSTOM_STOPWORDS ==
    {"elizabeth", "warren", "plan", "warrenplanbot", "warrenplanbotdev", "sen",
     "senator", "thanks", "thank", "you", "show"}

\* the Porter stemmer on the words of the model's texts (gensim stem_text)
PorterStem ==
    [w \in {"housing", "house", "student", "students", "debt", "wealth", "tax",
            "taxes", "help", "advanced", "plans", "race", "status", "check",
            "state", "primary", "loans", "loan", "college", "cost", "bot"} |->
        CASE w \in {"housing", "house"} -> "hous"
          [] w = "students" -> "student"
          [] w = "taxes" -> "tax"
          [] w = "advanced" -> "advanc"
          [] w = "plans" -> "plan"
          [] w = "status" -> "statu"
          [] w = "primary" -> "primari"
          [] w = "loans" -> "loan"
          [] w = "college" -> "colleg"
          [] OTHER -> w]

\* lower-casing, then strip_punctuation: every character that is neither a
\* letter, a digit nor whitespace becomes a blank
RECURSIVE LowerStripPunct(_)
LowerStripPunct(s) ==
    IF s = "" THEN ""
    ELSE LET c == LowerChar(Head(s))
         IN  (IF c \in LowerSet \cup DigitSet \cup WhiteSpace THEN c ELSE " ")
                 \o LowerStripPunct(Tail(s))

\* strip_numeric: the digits are deleted
RECURSIVE StripNumeric(_)
StripNumeric(s) ==
    IF s = "" THEN ""
    ELSE (IF Head(s) \in DigitSet THEN "" ELSE Head(s)) \o StripNumeric(Tail(s))

RECURSIVE FilterWords(_, _)
FilterWords(words, stopwords) ==
    IF words = <<>> THEN <<>>
    ELSE (IF words[1] \in stopwords THEN <<>> ELSE <<words[1]>>)
             \o FilterWords(Tail(words), stopwords)

\* strip_short: words of fewer than 3 characters are dropped
RECURSIVE StripShort(_)
StripShort(words) ==
    IF words = <<>> THEN <<>>
    ELSE (IF Len(words[1]) < 3 THEN <<>> ELSE <<words[1]>>)
             \o StripShort(Tail(words))

preprocess_gensim_v1(doc) ==
    LET words == Split(StripNumeric(LowerStripPunct(doc)))
        kept == StripShort(FilterWords(FilterWords(words, GENSIM_STOPWORDS),
                                       CUSTOM_STOPWORDS))
    IN  [i \in 1..Len(kept) |-> PorterStem[kept[i]]]

-----------------------------------------------------------------------------
(* Rule strategies: matching.py RuleStrategy *)

\* phrase\W*$ under re.MULTILINE with phrase at index i: after the phrase a
\* run of non-word characters reaches the end of the text or a line end
PhraseThenEnd(s, i, phrase) ==
    /\ MatchesAt(s, i, phrase)
    /\ LET from == i + Len(phrase)
           stop == SkipWhileNot(s, from, WordChars)
       IN  \E e \in from..stop : e = Len(s) + 1 \/ (e <= Len(s) /\ Char(s, e) = "\n")

\* re.search(phrase\W*$, s)
SearchPhraseEnd(s, phrase) == \E i \in 1..Len(s) : PhraseThenEnd(s, i, phrase)

\* a slip: the optional group is left out of the pattern
HelpMatch_NoGroup(s) == IF PhraseThenEnd(s, 1, "help") THEN "basic" ELSE ""

\* re.match(r"(advanced\s+)?help\W*$", s): "advanced" when group 1 matched,
\* "basic" when only help matched, "" when there is no match
HelpMatch(s) ==
    LET ws == SkipWhile(s, 9, WhiteSpace)
    IN  IF MatchesAt(s, 1, "advanced") /\ ws > 9 /\ PhraseThenEnd(s, ws, "help")
        THEN "advanced"
        ELSE IF PhraseThenEnd(s, 1, "help") THEN "basic"
        ELSE ""

\* the element of seq at the least index of hits, wrapped; None if hits is
\* empty (a loop that returns at the first element that passes its test)
FirstAt(seq, hits) ==
    IF hits = {} THEN None
    ELSE Some(seq[CHOOSE i \in hits : \A j \in hits : i <= j])

match_verbatim(verbatims, text, opts) ==
    LET verbatim_id ==
            IF "why_warren" \in opts \/ PhraseThenEnd(text, 1, "why warren")
            THEN "why_warren"
            ELSE IF HelpMatch(text) = "advanced" THEN "advanced_help"
            ELSE IF HelpMatch(text) = "basic" THEN "basic_help"
            ELSE "None"
        found == FirstAt(verbatims, {i \in 1..Len(verbatims) :
                                        verbatims[i].id = verbatim_id})
    IN  IF IsNone(found) THEN None
        ELSE Some([operation |-> Some("verbatim"), verbatim |-> found])

\* a slip: the plan list request also names a plan as its match
request_plan_list_WithMatch(plans, text) ==
    IF SearchPhraseEnd(text, "show me the plans")
    THEN Some([operation |-> Some("all_the_plans"), match |-> Some(plans[1].id)])
    ELSE None

request_plan_list(plans, text) ==
    IF SearchPhraseEnd(text, "show me the plans")
    THEN Some([operation |-> Some("all_the_plans")])
    ELSE None

request_state_of_race(plans, text, opts) ==
    IF \/ "state_of_race" \in opts
       \/ \E ph \in {"state of race", "state of the race", "state of primary",
                     "state of the primary"} : SearchPhraseEnd(text, ph)
       \/ \E ph \in {"is the race over", "is the primary over"} :
              SearchPhraseEnd(text, ph)
       \/ SearchPhraseEnd(text, "status check")
    THEN Some([operation |-> Some("state_of_race")])
    ELSE None

\* a slip: the titles are compared as written
match_display_title_Raw(plans, text) ==
    LET found == FirstAt(plans, {i \in 1..Len(plans) :
                    plans[i].display_title = text})
    IN  IF IsNone(found) THEN None
        ELSE Some([match |-> Some(Val(found).id), confidence |-> Some(1000),
                   plan |-> found])

match_display_title(plans, text) ==
    LET preprocessed_post == preprocess_gensim_v1(text)
        found == FirstAt(plans, {i \in 1..Len(plans) :
                    preprocess_gensim_v1(plans[i].display_title) = preprocessed_post})
    IN  IF IsNone(found) THEN None
        ELSE Some([match |-> Some(Val(found).id), confidence |-> Some(1000),
                   plan |-> found])


-----------------------------------------------------------------------------
(* Semantic engine: matching.py Strategy._gensim_similarity.  The similarity *)
(* index is an external artifact: sims is the score it returns per corpus    *)
(* position, here the confidence in tenths of a point (similarity * 1000),   *)
(* and plan_ids the artifact's document id per corpus position.              *)

LSA_THRESHOLD == 781

TFIDF_THRESHOLD == 150

POTENTIAL_PLAN_THRESHOLD == 500

\* sorted(enumerate(sims), key=lambda item: -item[1]): the corpus positions by
\* descending score, equal scores in corpus order (the sort is stable)
Ranked(sims) ==
    LET Rank(i) == 1 + Cardinality({j \in 1..Len(sims) :
                        sims[j] > sims[i] \/ (sims[j] = sims[i] /\ j < i)})
    IN  [k \in 1..Len(sims) |-> CHOOSE i \in 1..Len(sims) : Rank(i) = k]

\* potential_matches_with_dups
WithDups(plans, plan_ids, sims) ==
    LET order == Ranked(sims)
    IN  [k \in 1..Len(sims) |->
            [plan_id |-> plan_ids[order[k]],
             plan |-> FirstAt(plans, {i \in 1..Len(plans) :
                                        plans[i].id = plan_ids[order[k]]}),
             confidence |-> sims[order[k]]]]

\* a slip: the ranking is returned with its duplicates
Dedupe_Identity(entries) == entries

\* the dedupe loop: an entry is kept when no earlier entry has its plan_id
RECURSIVE Dedupe(_)
Dedupe(entries) ==
    IF entries = <<>> THEN <<>>
    ELSE LET front == Dedupe(SubSeq(entries, 1, Len(entries) - 1))
             last == entries[Len(entries)]
         IN  IF \E k \in 1..Len(front) : front[k].plan_id = last.plan_id
             THEN front
             ELSE Append(front, last)

\* a slip: the ranking is returned unfiltered
AboveThreshold_NoFilter(entries, threshold) == entries

\* filter(lambda m: m["confidence"] > potential_plan_threshold, ...)
RECURSIVE AboveThreshold(_, _)
AboveThreshold(entries, threshold) ==
    IF entries = <<>> THEN <<>>
    ELSE (IF entries[1].confidence > threshold THEN <<entries[1]>> ELSE <<>>)
             \o AboveThreshold(Tail(entries), threshold)

\* a slip: a confidence equal to the threshold is accepted
gensim_similarity_Inclusive(plans, plan_ids, sims, threshold, potential_plan_threshold) ==
    LET potential_matches == Dedupe(WithDups(plans, plan_ids, sims))
    IN  IF potential_matches = <<>>
        THEN [raised |-> TRUE, value |-> <<>>]
        ELSE LET best == potential_matches[1]
             IN  [raised |-> FALSE,
                  value |->
                    [match |-> IF best.confidence >= threshold
                               THEN Some(best.plan_id) ELSE None,
                     confidence |-> Some(best.confidence),
                     plan |-> best.plan,
                     potential_matches |->
                        Some(AboveThreshold(potential_matches,
                                            potential_plan_threshold))]]

\* [raised, value]: raised is the IndexError of potential_matches[0] on an
\* empty ranking
gensim_similarity(plans, plan_ids, sims, threshold, potential_plan_threshold) ==
    LET potential_matches == Dedupe(WithDups(plans, plan_ids, sims))
    IN  IF potential_matches = <<>>
        THEN [raised |-> TRUE, value |-> <<>>]
        ELSE LET best == potential_matches[1]
             IN  [raised |-> FALSE,
                  value |->
                    [match |-> IF best.confidence > threshold
                               THEN Some(best.plan_id) ELSE None,
                     confidence |-> Some(best.confidence),
                     plan |-> best.plan,
                     potential_matches |->
                        Some(AboveThreshold(potential_matches,
                                            potential_plan_threshold))]]

StrategyThreshold(strategy) ==
    IF strategy = "tfidf_gensim_v3" THEN TFIDF_THRESHOLD ELSE LSA_THRESHOLD

\* Strategy.lsa_gensim_v3 / Strategy.tfidf_gensim_v3
matching_strategy(strategy, plans, plan_ids, sims) ==
    gensim_similarity(plans, plan_ids, sims, StrategyThreshold(strategy),
                      POTENTIAL_PLAN_THRESHOLD)

-----------------------------------------------------------------------------
(* The strategy chain of process_post (plan_bot.py:250-256) *)

\* a slip: the statistical strategy is the first operand
CHAIN_ORDER_StatisticalFirst ==
    <<"matching_strategy", "match_verbatim", "request_plan_list",
      "request_state_of_race", "match_display_title">>

\* the order in which the or-chain evaluates its operands
CHAIN_ORDER ==
    <<"match_verbatim", "request_plan_list", "request_state_of_race",
      "match_display_title", "matching_strategy">>

\* what one rule strategy returns as process_post calls it: the options go
\* to match_verbatim only; request_state_of_race keeps its default set()
RuleResult(name, verbatims, plans, text, opts) ==
    CASE name = "match_verbatim" -> match_verbatim(verbatims, text, opts)
      [] name = "request_plan_list" -> request_plan_list(plans, text)
      [] name = "request_state_of_race" -> request_state_of_race(plans, text, {})
      [] name = "match_display_title" -> match_display_title(plans, text)

\* a or b or ...: operands are evaluated in order up to the first truthy one.
\* [invoked, raised, info]
RECURSIVE OrChain(_, _, _, _, _, _, _, _)
OrChain(order, verbatims, plans, text, opts, strategy, plan_ids, sims) ==
    LET name == Head(order)
    IN  IF name = "matching_strategy"
        THEN LET r == matching_strategy(strategy, plans, plan_ids, sims)
             IN  [invoked |-> <<name>>, raised |-> r.raised, info |-> r.value]
        ELSE LET r == RuleResult(name, verbatims, plans, text, opts)
             IN  IF ~IsNone(r)
                 THEN [invoked |-> <<name>>, raised |-> FALSE, info |-> Val(r)]
                 ELSE LET rest == OrChain(Tail(order), verbatims, plans, text,
                                          opts, strategy, plan_ids, sims)
                      IN  [rest EXCEPT !.invoked = <<name>> \o @]

MatchChain(verbatims, plans, text, opts, strategy, plan_ids, sims) ==
    OrChain(CHAIN_ORDER, verbatims, plans, text, opts, strategy, plan_ids, sims)


-----------------------------------------------------------------------------
(* The corpus, the messages and the external outcomes the model explores *)

Plans ==
    <<[id |-> "housing", display_title |-> "Housing", is_cluster |-> FALSE],
      [id |-> "student_debt", display_title |-> "Student Debt", is_cluster |-> FALSE],
      [id |-> "taxes", display_title |-> "Taxes", is_cluster |-> TRUE],
      [id |-> "wealth_tax", display_title |-> "Wealth Tax", is_cluster |-> FALSE]>>

Verbatims ==
    <<[id |-> "why_warren"], [id |-> "basic_help"], [id |-> "advanced_help"]>>

\* the semantic model's document id per corpus position (with a duplicate)
ModelPlanIds == <<"housing", "student_debt", "housing", "taxes">>

\* scores of the similarity index: an accepted plan, an accepted cluster,
\* candidates below the match threshold, and nothing above either threshold
SimsChoices ==
    {<<300, 900, 200, 0>>, <<0, 100, 0, 950>>, <<600, 700, 650, 781>>,
     <<100, 0, -50, 500>>, <<120, 0, -50, 100>>}

Authors == {None, Some("alice"), Some("WarrenPlanBot")}

ParentPost == [id |-> "s0", type |-> "submission", locked |-> FALSE,
               author |-> Some("dave")]

Comment(author, locked, text) ==
    [id |-> "c1", type |-> "comment", locked |-> locked, author |-> author,
     text |-> text, parent |-> Some(ParentPost), parent_id |-> "t3_s0",
     title |-> ""]

\* parents a comment can have besides ParentPost: a submission locked after
\* the comment was made, and a message of the bot itself
OtherParents ==
    {[ParentPost EXCEPT !.locked = TRUE],
     [ParentPost EXCEPT !.author = Some("WarrenPlanBot")]}

CommentOn(parent, text) ==
    [Comment(Some("alice"), FALSE, text) EXCEPT !.parent = Some(parent)]

Submission(author, locked, text) ==
    [id |-> "s1", type |-> "submission", locked |-> locked, author |-> author,
     text |-> text, parent |-> None, parent_id |-> "", title |-> "A title"]

TriggerTexts ==
    {"!WarrenPlanBot what about student loans?",
     "!WarrenPlanBot housing",
     "!WarrenPlanBot --parent the Housing plan!",
     "!WarrenPlanBot --why-warren housing",
     "!WarrenPlanBot help",
     "!WarrenPlanBot advanced help",
     "Thanks! !warrenplanbot show me the plans",
     "!WarrenPlanBot what is the state of the race?",
     "!WarrenPlanBot --state housing"}

Posts ==
    {Comment(Some("alice"), FALSE, t) : t \in TriggerTexts}
        \cup {CommentOn(q, "!WarrenPlanBot --parent the Housing plan!") : q \in OtherParents}
        \cup {Submission(a, l, t) : a \in Authors, l \in BOOLEAN,
                t \in {"!WarrenPlanBot --parent taxes", "I like housing"}}

PostIds == {p.id : p \in Posts}

\* what post.reply does: it succeeds or raises an APIException of that type
ReplyOutcomes == {"ok", "DELETED_COMMENT", "RATELIMIT"}

\* what build_llm_plan_response_text returns
LlmOutcomes == {None, Some(""), Some("llm text")}

Args == [send : BOOLEAN, simulate : BOOLEAN, skip_tracking : BOOLEAN]

NoArgs == [send |-> FALSE, simulate |-> FALSE, skip_tracking |-> FALSE]

-----------------------------------------------------------------------------
(* plan_bot.py create_db_record, reply text builders *)

SERVER_TIMESTAMP == "SERVER_TIMESTAMP"

\* s[3:]
DropPrefix3(str) == SubSeq(str, 4, Len(str))

\* [raised, value]: raised is the AttributeError of post.author.name on a
\* message without author
create_db_record(p, match, plan_confidence, plan_id, verbatim_id, processed, skipped, reason) ==
    IF IsNone(p.author) THEN [raised |-> TRUE, value |-> <<>>]
    ELSE [raised |-> FALSE,
          value |->
            [processed |-> processed,
             processed_timestamp |-> SERVER_TIMESTAMP,
             replied |-> Some(FALSE),
             skipped |-> skipped,
             skip_reason |-> reason,
             type |-> p.type,
             post_id |-> p.id,
             post_author |-> "/u/" \o Val(p.author),
             post_text |-> p.text,
             post_parent_id |-> IF p.type = "comment"
                                THEN Some(DropPrefix3(p.parent_id)) ELSE None,
             post_title |-> IF p.type = "submission" THEN Some(p.title) ELSE None,
             post_locked |-> p.locked,
             plan_match |-> match,
             top_plan_confidence |-> plan_confidence,
             top_plan |-> plan_id,
             verbatim_id |-> verbatim_id,
             reply_timestamp |-> None]]

\* s contains sub
Contains(str, sub) ==
    \E i \in 1..Len(str) : i + Len(sub) - 1 <= Len(str)
                              /\ SubSeq(str, i, i + Len(sub) - 1) = sub

\* a slip: the trigger word is not looked for
SkipReason_NoTriggerCheck(p) ==
    IF p.locked THEN Some("post_locked")
    ELSE IF IsNone(p.author) THEN Some("no_author")
    ELSE IF Contains(Lower(Val(p.author)), "warrenplanbot") THEN Some("own_post")
    ELSE None

\* the skip checks of process_post, in the order of the if/elif chain
SkipReason(p) ==
    IF p.locked THEN Some("post_locked")
    ELSE IF IsNone(p.author) THEN Some("no_author")
    ELSE IF Contains(Lower(Val(p.author)), "warrenplanbot") THEN Some("own_post")
    ELSE IF ~HasTrigger(p.text) THEN Some("trigger_not_found")
    ELSE None

RECURSIVE PurePlans(_)
PurePlans(plans) ==
    IF plans = <<>> THEN <<>>
    ELSE (IF plans[1].is_cluster THEN <<>> ELSE <<plans[1]>>) \o PurePlans(Tail(plans))

\* xs[:n]
Take(xs, n) == SubSeq(xs, 1, IF Len(xs) < n THEN Len(xs) ELSE n)

\* the truth value of an optional string (an id, an operation, a text)
Truthy(v) == ~IsNone(v) /\ Val(v) # ""

\* the truth value of an optional boolean
TruthyBool(v) == ~IsNone(v) /\ Val(v)


-----------------------------------------------------------------------------
(* plan_bot.py process_post, one action per stretch between external calls *)

Init ==
    /\ post_ids_processed = {}
    /\ posts_db = [k \in PostIds |-> None]
    /\ pc = "idle"
    /\ post = CHOOSE p \in Posts : TRUE
    /\ args = NoArgs
    /\ skip_reason = None
    /\ post_text = ""
    /\ options = {}
    /\ match_info = [match |-> None]
    /\ update = [reply_type |-> ""]
    /\ reply_string = [builder |-> "", links |-> <<>>, prefix |-> None]
    /\ did_reply = None
    /\ exc = None
    /\ log = <<>>
    /\ seen = {}
    /\ again = FALSE
    /\ g_in = <<>>
    /\ g_out = <<>>

\* a slip: the id is never added to the run's set
MarkProcessed_Forgotten(ids, id) == ids

\* a slip: the run's set is overwritten with the last id
MarkProcessed_OnlyLast(ids, id) == {id}

\* post_ids_processed.add(post.id)
MarkProcessed(ids, id) == ids \cup {id}

\* posts_db.document(key).set(doc)
DbSet(db, key, doc) == [db EXCEPT ![key] = Some(doc)]

\* posts_db.document(key).update(fields)
DbUpdate(db, key, fields) == [db EXCEPT ![key] = Some(Merge(Val(@), fields))]

\* a slip: the audit-store calls are not guarded by skip_tracking
Tracking_Always(a) == TRUE

\* if not skip_tracking: (the three audit-store calls are guarded alike)
Tracking(a) == ~a.skip_tracking

\* process_post is called (lines 202-223) with message p and some keyword
\* arguments: a message whose id is already in the run's set returns at once,
\* any other is added to the set
Enter(p) ==
    /\ pc \in {"idle", "returned", "raised"}
    /\ post' = p
    /\ seen' = seen \cup {p.id}
    /\ again' = (p.id \in seen)
    /\ skip_reason' = None
    /\ post_text' = ""
    /\ options' = {}
    /\ match_info' = [match |-> None]
    /\ update' = [reply_type |-> ""]
    /\ reply_string' = [builder |-> "", links |-> <<>>, prefix |-> None]
    /\ did_reply' = None
    /\ exc' = None
    /\ log' = <<>>
    /\ IF p.id \in post_ids_processed
       THEN /\ pc' = "returned"
            /\ args' = NoArgs
            /\ UNCHANGED post_ids_processed
       ELSE /\ pc' = "skip_check"
            /\ args' \in Args
            /\ post_ids_processed' = MarkProcessed(post_ids_processed, p.id)
    /\ UNCHANGED <<posts_db, g_in, g_out>>

\* lines 225-246: the skip checks and, on a skip, the skip record
SkipCheck ==
    /\ pc = "skip_check"
    /\ LET reason == SkipReason(post)
           rec == create_db_record(post, None, None, None, None, TRUE, TRUE, reason)
       IN  /\ skip_reason' = reason
           /\ IF IsNone(reason)
              THEN /\ pc' = "match"
                   /\ UNCHANGED <<posts_db, log, exc>>
              ELSE IF rec.raised
              THEN /\ pc' = "raised"
                   /\ exc' = Some("AttributeError")
                   /\ UNCHANGED <<posts_db, log>>
              ELSE /\ pc' = "returned"
                   /\ IF Tracking(args)
                      THEN /\ posts_db' = DbSet(posts_db, post.id, rec.value)
                           /\ log' = Append(log, [op |-> "set", key |-> post.id,
                                                  doc |-> rec.value])
                      ELSE UNCHANGED <<posts_db, log>>
                   /\ UNCHANGED exc
    /\ UNCHANGED <<post_ids_processed, post, args, post_text, options, match_info,
                   update, reply_string, did_reply, seen, again, g_in, g_out>>

\* plan = match_info.get("plan", {}): {} when the key is absent
PlanOf(info) == IF "plan" \in DOMAIN info THEN info.plan ELSE Some(<<>>)

\* plan.get("id")
PlanIdOf(info) ==
    LET plan == Val(PlanOf(info))
    IN  IF "id" \in DOMAIN plan THEN Some(plan.id) ELSE None

\* verbatim.get("id") of match_info.get("verbatim", {})
VerbatimIdOf(info) ==
    IF "verbatim" \in DOMAIN info THEN Some(Val(info.verbatim).id) ELSE None

StrategyCalls(names) == [i \in 1..Len(names) |-> [op |-> "strategy", name |-> names[i]]]

\* lines 248-265: trigger span, flags, the strategy chain and its fields.
\* parser.error ends the call with SystemExit; a best candidate that is not
\* in plans makes plan.get fail on None.
Match ==
    /\ pc = "match"
    /\ LET flags == process_flags(get_trigger_line(post.text))
       IN  IF flags.error
           THEN /\ pc' = "raised"
                /\ exc' = Some("SystemExit")
                /\ UNCHANGED <<post_text, options, match_info, log>>
           ELSE \E sims \in SimsChoices :
                  LET r == MatchChain(Verbatims, Plans, flags.remaining_text,
                                      flags.options, "lsa_gensim_v3",
                                      ModelPlanIds, sims)
                  IN  /\ post_text' = flags.remaining_text
                      /\ options' = flags.options
                      /\ log' = log \o StrategyCalls(r.invoked)
                      /\ IF r.raised
                         THEN /\ pc' = "raised"
                              /\ exc' = Some("IndexError")
                              /\ UNCHANGED match_info
                         ELSE IF IsNone(PlanOf(r.info))
                         THEN /\ pc' = "raised"
                              /\ exc' = Some("AttributeError")
                              /\ match_info' = r.info
                         ELSE /\ pc' = "write_decision"
                              /\ match_info' = r.info
                              /\ UNCHANGED exc
    /\ UNCHANGED <<post_ids_processed, posts_db, post, args, skip_reason, update,
                   reply_string, did_reply, seen, again, g_in, g_out>>

\* a slip: the decision is not stored before the reply is attempted
WriteDecision_Skipped ==
    /\ pc = "write_decision"
    /\ pc' = "build_reply"
    /\ UNCHANGED <<post_ids_processed, posts_db, post, args, skip_reason, post_text,
                   options, match_info, update, reply_string, did_reply, exc, log,
                   seen, again, g_in, g_out>>

\* lines 267-274: the record of the decision is stored before the reply
WriteDecision ==
    /\ pc = "write_decision"
    /\ LET rec == create_db_record(post, Get(match_info, "match"),
                                   Get(match_info, "confidence"),
                                   PlanIdOf(match_info), VerbatimIdOf(match_info),
                                   TRUE, FALSE, None)
       IN  IF Tracking(args)
           THEN /\ posts_db' = DbSet(posts_db, post.id, rec.value)
                /\ log' = Append(log, [op |-> "set", key |-> post.id,
                                       doc |-> rec.value])
           ELSE UNCHANGED <<posts_db, log>>
    /\ pc' = "build_reply"
    /\ UNCHANGED <<post_ids_processed, post, args, skip_reason, post_text, options,
                   match_info, update, reply_string, did_reply, exc, seen, again,
                   g_in, g_out>>


Ids(entries) == [i \in 1..Len(entries) |-> entries[i].id]

\* a slip: the llm response is used without looking at it
build_plan_response_text_NoFallback(plan, llm) ==
    IF plan.is_cluster THEN [builder |-> "plan_cluster", links |-> <<plan.id>>]
    ELSE [builder |-> "plan_llm", links |-> <<plan.id>>]

\* build_plan_response_text: [builder, links] for a matched plan, llm being
\* what build_llm_plan_response_text returned
build_plan_response_text(plan, llm) ==
    IF plan.is_cluster THEN [builder |-> "plan_cluster", links |-> <<plan.id>>]
    ELSE IF Truthy(llm) THEN [builder |-> "plan_llm", links |-> <<plan.id>>]
    ELSE [builder |-> "plan", links |-> <<plan.id>>]

\* build_all_plans_response_text: [raised, value]; the header row indexes
\* pure_plans[0], [1] and [2], an IndexError on fewer than three
build_all_plans_response_text(plans) ==
    LET pure_plans == PurePlans(plans)
    IN  IF Len(pure_plans) < 3 THEN [raised |-> TRUE, value |-> <<>>]
        ELSE [raised |-> FALSE,
              value |-> [builder |-> "all_the_plans", links |-> Ids(pure_plans)]]

\* a slip: every potential match is listed
build_no_match_response_text_All(potential_plan_matches) ==
    IF IsNone(potential_plan_matches) \/ Val(potential_plan_matches) = <<>>
    THEN [builder |-> "no_match_plain", links |-> <<>>]
    ELSE [builder |-> "no_match_suggestions",
          links |-> [i \in 1..Len(Val(potential_plan_matches)) |->
                        Val(potential_plan_matches)[i].plan_id]]

\* build_no_match_response_text: the first 8 potential matches as links, or
\* the plain text when the list is empty or None
build_no_match_response_text(potential_plan_matches) ==
    IF IsNone(potential_plan_matches) \/ Val(potential_plan_matches) = <<>>
    THEN [builder |-> "no_match_plain", links |-> <<>>]
    ELSE LET shown == Take(Val(potential_plan_matches), 8)
         IN  [builder |-> "no_match_suggestions",
              links |-> [i \in 1..Len(shown) |-> shown[i].plan_id]]

OPERATIONS_MAP == {"verbatim", "all_the_plans", "state_of_race"}

\* lines 276-307: [raised, reply_type, operation, text]
SelectReply(info, plans, llm) ==
    IF Truthy(Get(info, "match"))
    THEN [raised |-> FALSE,
          fields |-> [reply_type |->
                        build_plan_response_text(Val(PlanOf(info)), llm).builder],
          text |-> build_plan_response_text(Val(PlanOf(info)), llm)]
    ELSE IF Truthy(Get(info, "operation")) /\ Val(info.operation) \in OPERATIONS_MAP
    THEN LET operation == Val(info.operation)
             built ==
                CASE operation = "verbatim" ->
                        [raised |-> FALSE,
                         value |-> [builder |-> "verbatim",
                                    links |-> <<Val(info.verbatim).id>>]]
                  [] operation = "all_the_plans" ->
                        build_all_plans_response_text(plans)
                  [] operation = "state_of_race" ->
                        [raised |-> FALSE,
                         value |-> [builder |-> "state_of_race", links |-> <<>>]]
         IN  [raised |-> built.raised,
              fields |-> [reply_type |-> "operation", operation |-> operation],
              text |-> built.value]
    ELSE [raised |-> FALSE,
          fields |-> [reply_type |-> "no_match"],
          text |-> build_no_match_response_text(Get(info, "potential_matches"))]

\* the attribution line is prepended when the parent flag was given
WithPrefix(text, opts, p) ==
    [builder |-> text.builder, links |-> text.links,
     prefix |-> IF "parent" \in opts THEN p.author ELSE None]

\* build_plan_response_text reaches the llm call: a match on a plan that is
\* not a cluster
CallsLlm(info) ==
    Truthy(Get(info, "match")) /\ ~Val(PlanOf(info)).is_cluster

BuildReply ==
    /\ pc = "build_reply"
    /\ \E llm \in LlmOutcomes :
         LET sel == SelectReply(match_info, Plans, llm)
         IN  IF sel.raised
             THEN /\ pc' = "raised"
                  /\ exc' = Some("IndexError")
                  /\ UNCHANGED <<update, reply_string, log>>
             ELSE /\ pc' = "reply"
                  /\ update' = sel.fields
                  /\ reply_string' = WithPrefix(sel.text, options, post)
                  /\ log' = IF CallsLlm(match_info)
                            THEN Append(log, [op |-> "llm", outcome |-> llm])
                            ELSE log
                  /\ UNCHANGED exc
    /\ UNCHANGED <<post_ids_processed, posts_db, post, args, skip_reason, post_text,
                   options, match_info, did_reply, seen, again, g_in, g_out>>

\* reply(): the message replied to, the parent when asked for and present
ReplyTarget(p, parent) ==
    IF parent /\ ~IsNone(p.parent) THEN Val(p.parent) ELSE p

\* reply(): post.reply is called when send is set and simulate is not
CallsPostReply(a) == ~a.simulate /\ a.send

\* reply()'s return value when it does not raise: True, or None by falling
\* off the end
ReplyReturn(a) == IF a.simulate \/ a.send THEN Some(TRUE) ELSE None

\* a slip: every APIException is treated as the deleted-target case
Swallowed_All(error_type) == TRUE

\* the except clause of lines 313-319: is this APIException swallowed
Swallowed(error_type) == error_type = "DELETED_COMMENT"

\* lines 309-319: the reply attempt
Reply ==
    /\ pc = "reply"
    /\ LET target == ReplyTarget(post, "parent" \in options)
           call == [op |-> "reply", target |-> target.id]
       IN  IF ~CallsPostReply(args)
           THEN /\ did_reply' = ReplyReturn(args)
                /\ log' = Append(log, call)
                /\ pc' = "update"
                /\ UNCHANGED <<update, exc>>
           ELSE \E outcome \in ReplyOutcomes :
                  /\ log' = log \o <<call, [op |-> "post.reply",
                                            target |-> target.id,
                                            text |-> reply_string,
                                            outcome |-> outcome]>>
                  /\ IF outcome = "ok"
                     THEN /\ did_reply' = ReplyReturn(args)
                          /\ pc' = "update"
                          /\ UNCHANGED <<update, exc>>
                     ELSE IF Swallowed(outcome)
                     THEN /\ did_reply' = Some(FALSE)
                          /\ update' = Merge(update,
                                             [skipped |-> TRUE,
                                              skip_reason |-> Some("deleted_comment")])
                          /\ pc' = "update"
                          /\ UNCHANGED exc
                     ELSE /\ pc' = "raised"
                          /\ exc' = Some("APIException")
                          /\ UNCHANGED <<update, did_reply>>
    /\ UNCHANGED <<post_ids_processed, posts_db, post, args, skip_reason, post_text,
                   options, match_info, reply_string, seen, again, g_in, g_out>>

\* a slip: the timestamp is set whatever the outcome
OutcomeFields_AlwaysStamped(replied) ==
    [replied |-> replied, reply_timestamp |-> Some(SERVER_TIMESTAMP)]

\* lines 321-324: the outcome fields of the update
OutcomeFields(replied) ==
    IF TruthyBool(replied)
    THEN [replied |-> replied, reply_timestamp |-> Some(SERVER_TIMESTAMP)]
    ELSE [replied |-> replied]

\* lines 321-327: the record is updated with the reply outcome
Update ==
    /\ pc = "update"
    /\ update' = Merge(update, OutcomeFields(did_reply))
    /\ IF Tracking(args)
       THEN /\ posts_db' = DbUpdate(posts_db, post.id, update')
            /\ log' = Append(log, [op |-> "update", key |-> post.id,
                                   fields |-> update'])
       ELSE UNCHANGED <<posts_db, log>>
    /\ pc' = "returned"
    /\ UNCHANGED <<post_ids_processed, post, args, skip_reason, post_text, options,
                   match_info, reply_string, did_reply, exc, seen, again, g_in, g_out>>

-----------------------------------------------------------------------------
Next ==
    \/ \E p \in Posts : Enter(p)
    \/ SkipCheck
    \/ Match
    \/ WriteDecision
    \/ BuildReply
    \/ Reply
    \/ Update

Spec == Init /\ [][Next]_vars

-----------------------------------------------------------------------------
(* Views of the call log of the current invocation *)

CallsOf(ops) ==
    LET Test(e) == e.op \in ops
    IN  SelectSeq(log, Test)

Writes == CallsOf({"set", "update"})

Invoked ==
    LET calls == CallsOf({"strategy"})
    IN  [i \in 1..Len(calls) |-> calls[i].name]

ReplyCalled == CallsOf({"reply"}) # <<>>

\* the outcome of post.reply in this invocation, "" when it was not called
PostReplyOutcome ==
    LET calls == CallsOf({"post.reply"})
    IN  IF calls = <<>> THEN "" ELSE calls[1].outcome

\* the invocation has ended, normally or with an exception
Ended == pc \in {"returned", "raised"}

-----------------------------------------------------------------------------
(* C1 *)

\* C1: when process_post is invoked again with a message id it was already
\* invoked with in this run, the invocation returns without any call: no
\* audit-store set or update, no strategy, no reply.
C1_SecondInvocationIsNoOp ==
    again => /\ pc = "returned"
             /\ log = <<>>
             /\ IsNone(exc)

C1_Witness ==
    /\ again
    /\ pc = "returned"
    /\ ~IsNone(posts_db[post.id])

-----------------------------------------------------------------------------
(* C2 *)

\* the set call of the decision record of the current message: processed,
\* with the match, confidence, plan id and verbatim id of match_info
IsDecisionSet(e) ==
    /\ e.op = "set"
    /\ e.key = post.id
    /\ e.doc.processed
    /\ ~e.doc.skipped
    /\ e.doc.plan_match = Get(match_info, "match")
    /\ e.doc.top_plan_confidence = Get(match_info, "confidence")
    /\ e.doc.top_plan = PlanIdOf(match_info)
    /\ e.doc.verbatim_id = VerbatimIdOf(match_info)

\* C2: with tracking enabled, no execution reaches the reply call before the
\* set of the decision record (processed=true with the known match,
\* confidence, plan id and verbatim id) has been made, and that record is in
\* the store when the reply is attempted.
C2_DecisionWrittenBeforeReply ==
    Tracking(args) =>
        /\ pc = "reply" =>
              /\ \E j \in 1..Len(log) : IsDecisionSet(log[j])
              /\ ~IsNone(posts_db[post.id])
              /\ Val(posts_db[post.id]).processed
        /\ \A k \in 1..Len(log) :
              log[k].op \in {"reply", "post.reply"} =>
                  \E j \in 1..(k - 1) : IsDecisionSet(log[j])

C2_Witness ==
    /\ Tracking(args)
    /\ pc = "update"
    /\ PostReplyOutcome = "ok"
    /\ Truthy(Get(match_info, "match"))

-----------------------------------------------------------------------------
(* C3 *)

\* a reply was made: simulated, or sent with success
ReplyMade == args.simulate \/ PostReplyOutcome = "ok"

\* C3: with tracking enabled, an invocation that attempted its reply and
\* returned without the deleted-target error (the reply was sent, simulated or
\* suppressed) made exactly two audit-store calls: the set of the decision
\* record, then one update of the same key that carries the field replied;
\* the update carries reply_timestamp (the server's) exactly when the reply
\* was sent or simulated.
C3_SetThenOneUpdate ==
    (Tracking(args) /\ pc = "returned" /\ ReplyCalled
        /\ PostReplyOutcome # "DELETED_COMMENT") =>
        /\ Len(Writes) = 2
        /\ Writes[1].op = "set"
        /\ Writes[2].op = "update"
        /\ Writes[1].key = post.id
        /\ Writes[2].key = post.id
        /\ "replied" \in DOMAIN Writes[2].fields
        /\ TruthyBool(Writes[2].fields.replied) <=> ReplyMade
        /\ "reply_timestamp" \in DOMAIN Writes[2].fields <=> ReplyMade
        /\ ReplyMade => Writes[2].fields.reply_timestamp = Some(SERVER_TIMESTAMP)
        /\ Val(posts_db[post.id]) = Merge(Writes[1].doc, Writes[2].fields)

C3_Witness ==
    /\ Tracking(args)
    /\ pc = "returned"
    /\ ReplyCalled
    /\ ~args.send
    /\ ~args.simulate
    /\ Len(Writes) = 2

-----------------------------------------------------------------------------
(* C4 *)

\* C4: when post.reply fails with the DELETED_COMMENT APIException the
\* invocation does not raise and, with tracking enabled, its update carries
\* skipped=true, skip_reason='deleted_comment' and replied=false; when it
\* fails with another error the error leaves process_post, no update is
\* made and the stored record is the decision record: processed=true,
\* replied=false.
C4_DeletedSkippedOthersPropagate ==
    /\ PostReplyOutcome = "DELETED_COMMENT" =>
          /\ pc \in {"update", "returned"}
          /\ IsNone(exc)
          /\ (pc = "returned" /\ Tracking(args)) =>
                LET last == log[Len(log)]
                IN  /\ last.op = "update"
                    /\ last.fields.skipped = TRUE
                    /\ last.fields.skip_reason = Some("deleted_comment")
                    /\ last.fields.replied = Some(FALSE)
                    /\ "reply_timestamp" \notin DOMAIN last.fields
                    /\ Val(posts_db[post.id]).skipped
                    /\ Val(posts_db[post.id]).replied = Some(FALSE)
    /\ PostReplyOutcome \notin {"", "ok", "DELETED_COMMENT"} =>
          /\ pc = "raised"
          /\ exc = Some("APIException")
          /\ CallsOf({"update"}) = <<>>
          /\ Tracking(args) =>
                /\ Val(posts_db[post.id]).processed
                /\ Val(posts_db[post.id]).replied = Some(FALSE)
                /\ ~Val(posts_db[post.id]).skipped

C4_Witness ==
    /\ PostReplyOutcome = "DELETED_COMMENT"
    /\ pc = "returned"
    /\ Tracking(args)

-----------------------------------------------------------------------------
(* C5 *)

\* the current invocation is the first one of its message id and has ended
FirstEnded == ~again /\ pc \in {"returned", "raised"}

\* the store holds a skip record of the current message with this reason
SkipRecorded(reason) ==
    /\ ~IsNone(posts_db[post.id])
    /\ Writes = <<[op |-> "set", key |-> post.id,
                   doc |-> Val(posts_db[post.id])]>>
    /\ Val(posts_db[post.id]).processed
    /\ Val(posts_db[post.id]).skipped
    /\ Val(posts_db[post.id]).skip_reason = Some(reason)
    /\ Val(posts_db[post.id]).replied = Some(FALSE)

\* C5 as stated, for the invocations that return: every message lacking the
\* trigger word gets a record with skipped=true and
\* skip_reason='trigger_not_found', and no strategy is invoked.
C5_AsStated ==
    (FirstEnded /\ pc = "returned" /\ Tracking(args) /\ ~HasTrigger(post.text)) =>
        /\ SkipRecorded("trigger_not_found")
        /\ Invoked = <<>>

\* C5 (amended): for every message lacking the trigger word no rule or
\* statistical strategy is invoked and no reply is attempted; when moreover the
\* message is not locked, has an author and is not written by the bot, the
\* invocation returns and, with tracking enabled, its only store call is the
\* set of a record with skipped=true and skip_reason='trigger_not_found'.
C5_NoTriggerNoStrategy ==
    (~again /\ pc # "idle" /\ ~HasTrigger(post.text)) =>
        /\ Invoked = <<>>
        /\ ~ReplyCalled
        /\ pc \in {"skip_check", "returned", "raised"}
        /\ (/\ pc # "skip_check"
            /\ ~post.locked
            /\ ~IsNone(post.author)
            /\ ~Contains(Lower(Val(post.author)), "warrenplanbot")) =>
                /\ pc = "returned"
                /\ skip_reason = Some("trigger_not_found")
                /\ Tracking(args) => SkipRecorded("trigger_not_found")

C5_Witness ==
    /\ FirstEnded
    /\ post = Submission(Some("alice"), FALSE, "I like housing")
    /\ Tracking(args)
    /\ SkipRecorded("trigger_not_found")

-----------------------------------------------------------------------------
(* C6, C7 *)

\* the first true check in the order locked, no author, self-authored,
\* trigger absent; "" when none is true
FirstTrueCheck(p) ==
    IF p.locked THEN "post_locked"
    ELSE IF IsNone(p.author) THEN "no_author"
    ELSE IF Contains(Lower(Val(p.author)), "warrenplanbot") THEN "own_post"
    ELSE IF ~HasTrigger(p.text) THEN "trigger_not_found"
    ELSE ""

\* C6 as stated: the recorded skip_reason is the first check that is true in
\* the order locked, no author, self-authored, trigger absent; a locked
\* submission containing the trigger word yields a record with
\* skip_reason='post_locked' and no reply attempt.
C6_AsStated ==
    (FirstEnded /\ Tracking(args) /\ FirstTrueCheck(post) # "") =>
        /\ SkipRecorded(FirstTrueCheck(post))
        /\ ~ReplyCalled

\* C7 as stated: for each of the four skip reasons the invocation does not
\* raise: it returns having stored (with tracking enabled) a record with
\* processed=true, skipped=true and that reason, no strategy run and no reply
\* attempted, the no-author case included.
C7_AsStated ==
    (~again /\ pc \notin {"idle", "skip_check"} /\ FirstTrueCheck(post) # "") =>
        /\ pc = "returned"
        /\ IsNone(exc)
        /\ Tracking(args) => SkipRecorded(FirstTrueCheck(post))
        /\ Invoked = <<>>
        /\ ~ReplyCalled

-----------------------------------------------------------------------------
(* C8 *)

\* the current invocation is past the strategy chain
PastChain == pc \in {"write_decision", "build_reply", "reply", "update"}

Strategies == {"lsa_gensim_v3", "tfidf_gensim_v3"}

\* C8: for a non-skipped message the strategies invoked are an initial stretch
\* of verbatim rule, plan-list rule, state-of-race rule, exact-title rule,
\* statistical strategy; every one but the last invoked missed and the match
\* result used is the result of the last invoked one, so the statistical
\* strategy is invoked only when the four rules miss.
C8_ChainOrderFirstHit ==
    LET order == <<"match_verbatim", "request_plan_list", "request_state_of_race",
                   "match_display_title", "matching_strategy">>
        n == Len(Invoked)
    IN  /\ (~again /\ PastChain) => n >= 1
        /\ n >= 1 =>
              /\ n <= 5
              /\ Invoked = SubSeq(order, 1, n)
              /\ \A i \in 1..(n - 1) :
                    IsNone(RuleResult(order[i], Verbatims, Plans, post_text, options))
              /\ n < 5 => Some(match_info) =
                            RuleResult(order[n], Verbatims, Plans, post_text, options)
              /\ n = 5 => \E sims \in SimsChoices :
                            match_info = matching_strategy("lsa_gensim_v3", Plans,
                                                           ModelPlanIds, sims).value

C8_Witness ==
    /\ pc = "write_decision"
    /\ Len(Invoked) = 5
    /\ Truthy(Get(match_info, "match"))

-----------------------------------------------------------------------------
(* C9 *)

\* the corpus positions whose normalized display title is the normalized text
TitleHits(text) ==
    {i \in 1..Len(Plans) :
        preprocess_gensim_v1(Plans[i].display_title) = preprocess_gensim_v1(text)}

\* the chain returned Document d with confidence 100
ReturnedWithFullConfidence(info, d) ==
    /\ Get(info, "match") = Some(d.id)
    /\ Get(info, "confidence") = Some(1000)
    /\ Get(info, "plan") = Some(d)
    /\ "operation" \notin DOMAIN info

\* C9 as stated: when the normalized trigger span equals the normalized
\* display title of a Document, the chain returns that Document as match with
\* confidence 100.
C9_AsStated ==
    (~again /\ PastChain) =>
        \A i \in TitleHits(post_text) :
            ReturnedWithFullConfidence(match_info, Plans[i])

\* C9 (amended): when the normalized trigger span equals the normalized
\* display title of a Document and none of the verbatim, plan-list and
\* state-of-race rules hits, the chain returns the first such Document in
\* corpus order as match with confidence 100, whatever the scores of the
\* statistical strategy and whichever statistical strategy is configured.
C9_TitleMatchBeatsStatistical ==
    (/\ ~again
     /\ PastChain
     /\ TitleHits(post_text) # {}
     /\ \A name \in {"match_verbatim", "request_plan_list", "request_state_of_race"} :
            IsNone(RuleResult(name, Verbatims, Plans, post_text, options))) =>
        LET first == CHOOSE i \in TitleHits(post_text) :
                        \A k \in TitleHits(post_text) : i <= k
        IN  /\ ReturnedWithFullConfidence(match_info, Plans[first])
            /\ \A sims \in SimsChoices : \A strategy \in Strategies :
                  MatchChain(Verbatims, Plans, post_text, options, strategy,
                             ModelPlanIds, sims).info = match_info

C9_Witness ==
    /\ ~again
    /\ pc = "write_decision"
    /\ post_text = "the Housing plan!"
    /\ ReturnedWithFullConfidence(match_info, Plans[1])
    /\ \E sims \in SimsChoices :
          matching_strategy("lsa_gensim_v3", Plans, ModelPlanIds, sims).value.match
              = Some("student_debt")

-----------------------------------------------------------------------------
(* The semantic engine alone, over every small corpus and score vector *)

MaxCorpus == 3

GensimIds == {"housing", "student_debt", "taxes"}

\* scores below, at and above the thresholds
GensimScores == {100, TFIDF_THRESHOLD, POTENTIAL_PLAN_THRESHOLD, LSA_THRESHOLD, 900}

GensimInputs ==
    UNION {[strategy : Strategies, plan_ids : [1..n -> GensimIds],
            sims : [1..n -> GensimScores]] : n \in 0..MaxCorpus}

InitGensim ==
    /\ post_ids_processed = {}
    /\ posts_db = [k \in PostIds |-> None]
    /\ pc = "idle"
    /\ post = CHOOSE p \in Posts : TRUE
    /\ args = NoArgs
    /\ skip_reason = None
    /\ post_text = ""
    /\ options = {}
    /\ match_info = [match |-> None]
    /\ update = [reply_type |-> ""]
    /\ reply_string = [builder |-> "", links |-> <<>>, prefix |-> None]
    /\ did_reply = None
    /\ exc = None
    /\ log = <<>>
    /\ seen = {}
    /\ again = FALSE
    /\ g_in \in {Some(x) : x \in GensimInputs}
    /\ g_out = None

\* one call of the strategy on the corpus and scores of g_in
RunGensim ==
    /\ IsNone(g_out)
    /\ g_out' = Some(matching_strategy(Val(g_in).strategy, Plans,
                                       Val(g_in).plan_ids, Val(g_in).sims))
    /\ UNCHANGED <<g_in, pvars>>

NextGensim == RunGensim

SpecGensim == InitGensim /\ [][NextGensim]_vars

\* C10: for every corpus (duplicate entries per document id included) and
\* every score vector, the potential_matches returned never holds two entries
\* of the same document id, is ordered by non-increasing confidence, and the
\* entry kept for an id carries the highest score among that id's entries;
\* every id with an entry above the potential-match threshold is listed.
C10_PotentialMatchesDedupedSorted ==
    (~IsNone(g_out) /\ ~Val(g_out).raised) =>
        LET pm == Val(Val(g_out).value.potential_matches)
            ids == Val(g_in).plan_ids
            sims == Val(g_in).sims
        IN  /\ \A i, j \in 1..Len(pm) : i < j =>
                  /\ pm[i].plan_id # pm[j].plan_id
                  /\ pm[i].confidence >= pm[j].confidence
            /\ \A i \in 1..Len(pm) :
                  /\ pm[i].confidence > POTENTIAL_PLAN_THRESHOLD
                  /\ \E k \in 1..Len(ids) :
                        ids[k] = pm[i].plan_id /\ sims[k] = pm[i].confidence
                  /\ \A k \in 1..Len(ids) :
                        ids[k] = pm[i].plan_id => sims[k] <= pm[i].confidence
            /\ \A k \in 1..Len(ids) :
                  sims[k] > POTENTIAL_PLAN_THRESHOLD =>
                      \E i \in 1..Len(pm) : pm[i].plan_id = ids[k]

C10_Witness ==
    /\ ~IsNone(g_out)
    /\ ~Val(g_out).raised
    /\ Val(g_in).plan_ids = <<"housing", "student_debt", "housing">>
    /\ Val(g_in).sims = <<LSA_THRESHOLD, 900, 900>>
    /\ Len(Val(Val(g_out).value.potential_matches)) = 2

-----------------------------------------------------------------------------
(* process_flags alone, over every short sequence of tokens *)

\* the process is idle while a function is exercised alone
ProcessIdle ==
    /\ post_ids_processed = {}
    /\ posts_db = [k \in PostIds |-> None]
    /\ pc = "idle"
    /\ post = CHOOSE p \in Posts : TRUE
    /\ args = NoArgs
    /\ skip_reason = None
    /\ post_text = ""
    /\ options = {}
    /\ match_info = [match |-> None]
    /\ update = [reply_type |-> ""]
    /\ reply_string = [builder |-> "", links |-> <<>>, prefix |-> None]
    /\ did_reply = None
    /\ exc = None
    /\ log = <<>>
    /\ seen = {}
    /\ again = FALSE

MaxFlagTokens == 3

\* recognized flags and aliases, abbreviations (one unambiguous, one
\* ambiguous), an unknown long and short option, an explicit value, the
\* options terminator and a word
FlagTokens ==
    {"--parent", "--tell-parent", "--why-warren", "--status-check", "--par",
     "--state", "--foo", "-x", "--parent=1", "--", "housing"}

FlagTexts ==
    {Join(ws) : ws \in UNION {[1..n -> FlagTokens] : n \in 0..MaxFlagTokens}}

InitFlags ==
    /\ ProcessIdle
    /\ g_in \in {Some([text |-> t]) : t \in FlagTexts}
    /\ g_out = None

\* process_flags(text)
RunFlags ==
    /\ IsNone(g_out)
    /\ g_out' = Some([first |-> process_flags(Val(g_in).text)])
    /\ UNCHANGED <<g_in, pvars>>

\* process_flags(remaining_text) on the text the first call returned
RunFlagsAgain ==
    /\ ~IsNone(g_out)
    /\ DOMAIN Val(g_out) = {"first"}
    /\ ~Val(g_out).first.error
    /\ g_out' = Some([first |-> Val(g_out).first,
                      second |-> process_flags(Val(g_out).first.remaining_text)])
    /\ UNCHANGED <<g_in, pvars>>

NextFlags == RunFlags \/ RunFlagsAgain

SpecFlags == InitFlags /\ [][NextFlags]_vars

\* C11: whenever process_flags returns, applying it to the remaining_text it
\* returned returns too, with the same remaining_text and no option.
C11_FlagsIdempotent ==
    (~IsNone(g_out) /\ "second" \in DOMAIN Val(g_out)) =>
        /\ ~Val(g_out).second.error
        /\ Val(g_out).second.remaining_text = Val(g_out).first.remaining_text
        /\ Val(g_out).second.options = {}

C11_Witness ==
    /\ ~IsNone(g_out)
    /\ "second" \in DOMAIN Val(g_out)
    /\ Val(g_in).text = "--why-warren housing --parent"
    /\ Val(g_out).first.options = {"why_warren"}
    /\ Val(g_out).second.remaining_text = "housing --parent"

-----------------------------------------------------------------------------
(* C12 *)

\* the reply() calls of the current invocation
ReplyCalls == CallsOf({"reply"})

\* C12 as stated: when the parent flag was given and the message has a
\* parent, the reply goes to the parent and the text starts with the
\* attribution line naming the requester; when either condition is absent the
\* reply goes to the message itself and the text has no attribution line.
C12_AsStated ==
    (~again /\ ReplyCalls # <<>>) =>
        IF "parent" \in options /\ ~IsNone(post.parent)
        THEN /\ ReplyCalls[1].target = Val(post.parent).id
             /\ reply_string.prefix = post.author
        ELSE /\ ReplyCalls[1].target = post.id
             /\ IsNone(reply_string.prefix)

-----------------------------------------------------------------------------
(* The model cache alone: matching.py Strategy._load_gensim_models under    *)
(* functools.lru_cache.  A configuration (model_name, model, similarity,    *)
(* model_path) is named by the rank of its first use: the k-th distinct     *)
(* configuration of the run is k.                                           *)

\* lru_cache(maxsize=8)
CACHE_MAXSIZE == 8

MaxCalls == 10

\* xs without x
RECURSIVE Without(_, _)
Without(xs, x) ==
    IF xs = <<>> THEN <<>>
    ELSE (IF Head(xs) = x THEN <<>> ELSE <<Head(xs)>>) \o Without(Tail(xs), x)

InSeq(xs, x) == \E i \in 1..Len(xs) : xs[i] = x

\* a slip: nothing is ever dropped from the cache
load_gensim_models_Unbounded(cache, config) ==
    IF InSeq(cache, config)
    THEN [cache |-> Append(Without(cache, config), config), read |-> FALSE]
    ELSE [cache |-> Append(cache, config), read |-> TRUE]

\* one call of the cached loader; cache lists the cached configurations from
\* least to most recently used.  A hit moves the configuration to the recent
\* end; a miss reads the artifacts from storage and, the cache being full,
\* drops the least recently used entry.
load_gensim_models(cache, config) ==
    IF InSeq(cache, config)
    THEN [cache |-> Append(Without(cache, config), config), read |-> FALSE]
    ELSE [cache |-> Append(IF Len(cache) >= CACHE_MAXSIZE THEN Tail(cache) ELSE cache,
                           config),
          read |-> TRUE]

\* the number of distinct configurations used so far
UsedConfigs(calls) == Cardinality({calls[i] : i \in 1..Len(calls)})

InitCache ==
    /\ ProcessIdle
    /\ g_in = Some([calls |-> <<>>])
    /\ g_out = Some([cache |-> <<>>, reads |-> <<>>])

\* a call of the semantic engine with configuration c: one used before, or
\* the next new one
EngineCall(c) ==
    /\ Len(Val(g_in).calls) < MaxCalls
    /\ LET r == load_gensim_models(Val(g_out).cache, c)
       IN  /\ g_in' = Some([calls |-> Append(Val(g_in).calls, c)])
           /\ g_out' = Some([cache |-> r.cache,
                             reads |-> Append(Val(g_out).reads, r.read)])
    /\ UNCHANGED pvars

NextCache == \E c \in 1..(UsedConfigs(Val(g_in).calls) + 1) : EngineCall(c)

SpecCache == InitCache /\ [][NextCache]_vars

\* the calls before call k that used the configuration of call k
EarlierUses(calls, k) == {i \in 1..(k - 1) : calls[i] = calls[k]}

\* the distinct configurations used between the last earlier use of the
\* configuration of call k and call k
UsedSince(calls, k) ==
    LET prev == CHOOSE i \in EarlierUses(calls, k) :
                    \A m \in EarlierUses(calls, k) : m <= i
    IN  {calls[i] : i \in (prev + 1)..(k - 1)}

-----------------------------------------------------------------------------
(* The path of one message from its text to its reply text, over every    *)
(* small corpus: trigger span, flags, strategy chain, reply selection     *)

MaxPlans == 3

\* every corpus of up to MaxPlans entries drawn from Plans
Corpora == UNION {[1..n -> {Plans[i] : i \in 1..Len(Plans)}] : n \in 0..MaxPlans}

PlanListTexts ==
    {"!WarrenPlanBot show me the plans", "Thanks! !warrenplanbot show me the plans",
     "!WarrenPlanBot help", "!WarrenPlanBot advanced help"}

InitText ==
    /\ ProcessIdle
    /\ g_in \in {Some([plans |-> c, text |-> t]) : c \in Corpora, t \in PlanListTexts}
    /\ g_out = None

\* lines 248-303 on the message text and corpus of g_in
RunText ==
    /\ IsNone(g_out)
    /\ \E sims \in SimsChoices, llm \in LlmOutcomes :
          LET flags == process_flags(get_trigger_line(Val(g_in).text))
              r == MatchChain(Verbatims, Val(g_in).plans, flags.remaining_text,
                              flags.options, "lsa_gensim_v3", ModelPlanIds, sims)
          IN  g_out' = Some([match_info |-> r.info,
                             reply |-> SelectReply(r.info, Val(g_in).plans, llm)])
    /\ UNCHANGED <<g_in, pvars>>

NextText == RunText

SpecText == InitText /\ [][NextText]_vars

\* C14 as stated: for the text '!WarrenPlanBot show me the plans' and every
\* corpus, the match result is the operation all_the_plans and the reply text
\* built links every non-cluster Document of the corpus.
C14_AsStated ==
    (~IsNone(g_out) /\ Val(g_in).text = "!WarrenPlanBot show me the plans") =>
        /\ Get(Val(g_out).match_info, "operation") = Some("all_the_plans")
        /\ ~Val(g_out).reply.raised
        /\ \A i \in 1..Len(Val(g_in).plans) :
              ~Val(g_in).plans[i].is_cluster =>
                  InSeq(Val(g_out).reply.text.links, Val(g_in).plans[i].id)

-----------------------------------------------------------------------------
(* C15 *)

\* the current invocation is the first of its id and the chain has returned
ChainDone == ~again /\ pc \notin {"idle", "skip_check", "match"}

\* the current invocation has stored its decision record
DecisionStored ==
    /\ Tracking(args)
    /\ pc \in {"build_reply", "reply", "update", "returned", "raised"}

\* the match result is the verbatim operation with this id and the stored
\* record carries the id
VerbatimDecided(id) ==
    /\ Get(match_info, "operation") = Some("verbatim")
    /\ IsNone(Get(match_info, "match"))
    /\ VerbatimIdOf(match_info) = Some(id)
    /\ DecisionStored => Val(posts_db[post.id]).verbatim_id = Some(id)

\* C15: '!WarrenPlanBot help' yields the verbatim operation with verbatim id
\* basic_help, '!WarrenPlanBot advanced help' the one with id advanced_help,
\* and the audit record carries that id.
C15_HelpVerbatims ==
    ChainDone =>
        /\ post.text = "!WarrenPlanBot help" => VerbatimDecided("basic_help")
        /\ post.text = "!WarrenPlanBot advanced help" => VerbatimDecided("advanced_help")

C15_Witness ==
    /\ ChainDone
    /\ pc = "returned"
    /\ Tracking(args)
    /\ post.text = "!WarrenPlanBot advanced help"
    /\ Val(posts_db[post.id]).verbatim_id = Some("advanced_help")
    /\ Val(posts_db[post.id]).reply_type = "operation"

-----------------------------------------------------------------------------
(* C16 *)

\* the chain ended in the statistical strategy, whose best score is below
\* the match threshold and the potential-match threshold (so every score is)
AllScoresLow ==
    /\ ChainDone
    /\ Len(Invoked) = 5
    /\ Val(Get(match_info, "confidence")) < LSA_THRESHOLD
    /\ Val(Get(match_info, "confidence")) < POTENTIAL_PLAN_THRESHOLD

\* C16: a message that hits no rule and scores below both thresholds against
\* every Document yields match null and an empty potential_matches list; the
\* reply built, and sent, is the plain 'please rephrase' text and the
\* reply_type is no_match.
C16_LowScoresPleaseRephrase ==
    AllScoresLow =>
        /\ IsNone(Get(match_info, "match"))
        /\ Get(match_info, "potential_matches") = Some(<<>>)
        /\ pc \in {"reply", "update", "returned", "raised"} =>
              /\ reply_string.builder = "no_match_plain"
              /\ reply_string.links = <<>>
              /\ update.reply_type = "no_match"
              /\ "operation" \notin DOMAIN update
        /\ \A k \in 1..Len(log) :
              log[k].op = "post.reply" => log[k].text.builder = "no_match_plain"
        /\ (pc = "returned" /\ Tracking(args)) =>
              Val(posts_db[post.id]).reply_type = "no_match"

C16_Witness ==
    /\ AllScoresLow
    /\ pc = "returned"
    /\ Tracking(args)
    /\ PostReplyOutcome = "ok"
    /\ Val(posts_db[post.id]).reply_type = "no_match"

-----------------------------------------------------------------------------
(* matching.py Strategy._composite_strategy alone.  A strategy is given by  *)
(* what it returns on the input: None (a rule that misses) or a dict.       *)

MaxStrategies == 3

\* what a listed strategy can return: a rule's miss, a rule's operation-only
\* result, the title rule's match, a statistical match, a statistical result
\* without match
StrategyResults ==
    {None,
     Some([operation |-> Some("all_the_plans")]),
     Some([match |-> Some("housing"), confidence |-> Some(1000),
           plan |-> Some(Plans[1])]),
     Some([match |-> Some("student_debt"), confidence |-> Some(900),
           plan |-> Some(Plans[2]), potential_matches |-> Some(<<>>)]),
     Some([match |-> None, confidence |-> Some(300), plan |-> Some(Plans[1]),
           potential_matches |-> Some(<<>>)])}

\* the loop of _composite_strategy from strategy i on: [raised, invoked,
\* value].  match_info["match"] is a TypeError on None and a KeyError on a
\* dict without the key.
RECURSIVE composite_strategy(_, _)
composite_strategy(results, i) ==
    LET info == results[i]
    IN  IF IsNone(info)
        THEN [raised |-> Some("TypeError"), invoked |-> i, value |-> None]
        ELSE IF "match" \notin DOMAIN Val(info)
        THEN [raised |-> Some("KeyError"), invoked |-> i, value |-> None]
        ELSE IF Truthy(Val(info).match) \/ i = Len(results)
        THEN [raised |-> None, invoked |-> i, value |-> info]
        ELSE composite_strategy(results, i + 1)

InitComposite ==
    /\ ProcessIdle
    /\ g_in \in {Some([results |-> rs]) :
                    rs \in UNION {[1..n -> StrategyResults] : n \in 1..MaxStrategies}}
    /\ g_out = None

RunComposite ==
    /\ IsNone(g_out)
    /\ g_out' = Some(composite_strategy(Val(g_in).results, 1))
    /\ UNCHANGED <<g_in, pvars>>

NextComposite == RunComposite

SpecComposite == InitComposite /\ [][NextComposite]_vars

\* the result has a non-empty match or operation field
IsHit(result) ==
    /\ ~IsNone(result)
    /\ Truthy(Get(Val(result), "match")) \/ Truthy(Get(Val(result), "operation"))

\* C17 as stated: the strategies are invoked in order and the first result
\* whose match or operation field is non-empty is returned; if there is none
\* the result of the last strategy is returned; also when a listed strategy
\* is a rule that returns an operation-only result, or nothing on a miss.
C17_AsStated ==
    ~IsNone(g_out) =>
        LET results == Val(g_in).results
            hits == {i \in 1..Len(results) : IsHit(results[i])}
            stop == IF hits = {} THEN Len(results)
                    ELSE CHOOSE i \in hits : \A k \in hits : i <= k
        IN  /\ IsNone(Val(g_out).raised)
            /\ Val(g_out).invoked = stop
            /\ Val(g_out).value = results[stop]

-----------------------------------------------------------------------------
(* The two statistical strategies alone: matching.py Strategy.token_sort_ratio *)
(* and the semantic engine.  fuzz.token_sort_ratio is external: scores is   *)
(* the score (0..100) it returns per plan.                                  *)

\* threshold=50 of token_sort_ratio
TOKEN_SORT_THRESHOLD == 50

\* a slip: a plan with an equal score replaces the best so far
RECURSIVE TokenSortLoop_LastWins(_, _, _, _)
TokenSortLoop_LastWins(plans, scores, i, best) ==
    IF i > Len(plans) THEN best
    ELSE TokenSortLoop_LastWins(plans, scores, i + 1,
                       IF scores[i] >= best.confidence
                       THEN [confidence |-> scores[i], plan |-> Some(plans[i])]
                       ELSE best)

\* the loop of token_sort_ratio from plan i on, [confidence, plan] being the
\* best so far: a plan replaces it only with a strictly higher score
RECURSIVE TokenSortLoop(_, _, _, _)
TokenSortLoop(plans, scores, i, best) ==
    IF i > Len(plans) THEN best
    ELSE TokenSortLoop(plans, scores, i + 1,
                       IF scores[i] > best.confidence
                       THEN [confidence |-> scores[i], plan |-> Some(plans[i])]
                       ELSE best)

\* [raised, value]; match["id"] is evaluated only when the confidence
\* exceeds the threshold, a TypeError when there is no best plan then
token_sort_ratio(plans, scores, threshold) ==
    LET best == TokenSortLoop(plans, scores, 1, [confidence |-> 0, plan |-> None])
    IN  IF best.confidence > threshold /\ IsNone(best.plan)
        THEN [raised |-> TRUE, value |-> <<>>]
        ELSE [raised |-> FALSE,
              value |-> [match |-> IF best.confidence > threshold
                                   THEN Some(Val(best.plan).id) ELSE None,
                         confidence |-> Some(best.confidence),
                         plan |-> best.plan]]

\* scores of fuzz.token_sort_ratio: none, at the threshold, just above, high
TokenScores == {0, TOKEN_SORT_THRESHOLD, TOKEN_SORT_THRESHOLD + 1, 90}

TokenInputs ==
    UNION {[plans : [1..n -> {Plans[1], Plans[2], Plans[3]}],
            scores : [1..n -> TokenScores]] : n \in 0..MaxCorpus}

InitStatistical ==
    /\ ProcessIdle
    /\ g_in \in {Some(x) : x \in GensimInputs \cup TokenInputs}
    /\ g_out = None

\* one call of lsa_gensim_v3 or tfidf_gensim_v3
RunSemantic ==
    /\ "sims" \in DOMAIN Val(g_in)
    /\ RunGensim

\* one call of token_sort_ratio with its default threshold
RunTokenSort ==
    /\ "scores" \in DOMAIN Val(g_in)
    /\ IsNone(g_out)
    /\ g_out' = Some(token_sort_ratio(Val(g_in).plans, Val(g_in).scores,
                                      TOKEN_SORT_THRESHOLD))
    /\ UNCHANGED <<g_in, pvars>>

NextStatistical == RunSemantic \/ RunTokenSort

SpecStatistical == InitStatistical /\ [][NextStatistical]_vars

\* the least position holding the greatest of xs (xs not empty)
FirstMax(xs) ==
    CHOOSE i \in 1..Len(xs) :
        /\ \A k \in 1..Len(xs) : xs[k] <= xs[i]
        /\ \A k \in 1..(i - 1) : xs[k] < xs[i]

\* the result describes candidate (id, plan, confidence) and accepts it
\* exactly when the confidence exceeds the threshold
DescribesBest(value, id, plan, confidence, threshold) ==
    /\ value.confidence = Some(confidence)
    /\ value.plan = plan
    /\ confidence > threshold => value.match = Some(id)
    /\ confidence <= threshold => IsNone(value.match)

\* C18: in token_sort_ratio and in the semantic engine the match returned is
\* the id of the best candidate exactly when its confidence is strictly above
\* the threshold; at a confidence equal to the threshold (or below) the match
\* is null while confidence and plan are those of the best candidate.
C18_MatchIffAboveThreshold ==
    (~IsNone(g_out) /\ ~Val(g_out).raised) =>
        IF "sims" \in DOMAIN Val(g_in)
        THEN LET b == FirstMax(Val(g_in).sims)
                 id == Val(g_in).plan_ids[b]
             IN  DescribesBest(Val(g_out).value, id,
                               FirstAt(Plans, {i \in 1..Len(Plans) : Plans[i].id = id}),
                               Val(g_in).sims[b],
                               StrategyThreshold(Val(g_in).strategy))
        ELSE \/ /\ \A k \in 1..Len(Val(g_in).scores) : Val(g_in).scores[k] = 0
                /\ Val(g_out).value = [match |-> None, confidence |-> Some(0),
                                       plan |-> None]
             \/ /\ \E k \in 1..Len(Val(g_in).scores) : Val(g_in).scores[k] > 0
                /\ LET b == FirstMax(Val(g_in).scores)
                   IN  DescribesBest(Val(g_out).value, Val(g_in).plans[b].id,
                                     Some(Val(g_in).plans[b]), Val(g_in).scores[b],
                                     TOKEN_SORT_THRESHOLD)

C18_Witness ==
    /\ ~IsNone(g_out)
    /\ ~Val(g_out).raised
    /\ "sims" \in DOMAIN Val(g_in)
    /\ Val(g_in).strategy = "lsa_gensim_v3"
    /\ Val(g_in).sims = <<POTENTIAL_PLAN_THRESHOLD, LSA_THRESHOLD>>
    /\ Val(g_in).plan_ids = <<"housing", "student_debt">>
    /\ IsNone(Val(g_out).value.match)
    /\ Val(g_out).value.plan = Some(Plans[2])

-----------------------------------------------------------------------------
(* C19 *)

\* C19 as stated: when the corpus yields no candidate the semantic engine
\* returns a result with match null and an empty potential_matches list
\* rather than raising.
C19_AsStated ==
    (~IsNone(g_out) /\ Val(g_in).sims = <<>>) =>
        /\ ~Val(g_out).raised
        /\ IsNone(Val(g_out).value.match)
        /\ Val(g_out).value.potential_matches = Some(<<>>)

-----------------------------------------------------------------------------
(* C20 *)

\* C20 as stated: for lsa_gensim_v3 and tfidf_gensim_v3 with their default
\* thresholds, the potential-match threshold is lower than the acceptance
\* threshold, and every accepted match is the first entry of the
\* potential_matches list returned with it.
C20_AsStated ==
    (~IsNone(g_out) /\ ~Val(g_out).raised /\ ~IsNone(Val(g_out).value.match)) =>
        /\ POTENTIAL_PLAN_THRESHOLD < StrategyThreshold(Val(g_in).strategy)
        /\ Val(Val(g_out).value.potential_matches) # <<>>
        /\ Val(Val(g_out).value.potential_matches)[1].plan_id
              = Val(Val(g_out).value.match)

-----------------------------------------------------------------------------
(* C21 *)

\* the tokens of toks that do not start with "--", in their order
RECURSIVE NonFlagWords(_)
NonFlagWords(toks) ==
    IF toks = <<>> THEN <<>>
    ELSE (IF StartsWith(Head(toks), "--") THEN <<>> ELSE <<Head(toks)>>)
             \o NonFlagWords(Tail(toks))

\* C21 as stated: process_flags removes every recognized flag token wherever
\* it stands among the tokens of the text and reports its canonical name in
\* the options, drops every other token that starts with '--', and returns
\* the remaining words in their original order.  Stated on the texts made of
\* recognized flags, the unknown token --foo and words.
C21_AsStated ==
    (/\ ~IsNone(g_out)
     /\ "first" \in DOMAIN Val(g_out)
     /\ \A i \in 1..Len(Split(Val(g_in).text)) :
            Split(Val(g_in).text)[i] \in OptionStrings \cup {"--foo", "housing"}) =>
        LET toks == Split(Val(g_in).text)
        IN  /\ ~Val(g_out).first.error
            /\ Val(g_out).first.remaining_text = Join(NonFlagWords(toks))
            /\ Val(g_out).first.options =
                  {OptionDest[toks[i]] :
                      i \in {k \in 1..Len(toks) : toks[k] \in OptionStrings}}

-----------------------------------------------------------------------------
(* get_trigger_line alone, over the texts made of a few segments *)

MaxSegments == 3

TriggerSegments ==
    {"!WarrenPlanBot help", "!warrenplanbot housing", "!WarrenPlanBot", "Thanks!",
     "housing.", "!WarrenPlanBot-dev help"}

SegmentTexts ==
    {Join(ws) : ws \in UNION {[1..n -> TriggerSegments] : n \in 0..MaxSegments}}

InitTrigger ==
    /\ ProcessIdle
    /\ g_in \in {Some([text |-> t]) : t \in SegmentTexts}
    /\ g_out = None

\* get_trigger_line(text)
RunTrigger ==
    /\ IsNone(g_out)
    /\ g_out' = Some([span |-> get_trigger_line(Val(g_in).text)])
    /\ UNCHANGED <<g_in, pvars>>

NextTrigger == RunTrigger

SpecTrigger == InitTrigger /\ [][NextTrigger]_vars

\* the positions of text where the trigger word stands, whatever its case
TriggerPositions(text) == {i \in 1..Len(text) : MatchesAt(text, i, TRIGGER_WORD)}

\* the span after the trigger word at position i: the separators are skipped
\* and the text is taken up to and including the first of ! ? .
SpanAfter(text, i) ==
    LET j == SkipWhileNot(text, i + Len(TRIGGER_WORD), WordOrHyphen)
        k == SkipWhileNot(text, j, Terminals)
    IN  SubSeq(text, j, IF k <= Len(text) THEN k ELSE Len(text))

\* C22 as stated: the span returned is the one after the last occurrence of
\* the trigger word, and it is the empty string if and only if the trigger
\* word is absent from the text.
C22_AsStated ==
    ~IsNone(g_out) =>
        LET text == Val(g_in).text
            occurrences == TriggerPositions(text)
        IN  /\ Val(g_out).span = "" <=> occurrences = {}
            /\ occurrences # {} =>
                  Val(g_out).span =
                      SpanAfter(text, CHOOSE i \in occurrences :
                                          \A k \in occurrences : k <= i)

-----------------------------------------------------------------------------
(* C23 *)

\* the reply selected for match result info is the one the dispatch names
DispatchedAsStated(info, reply) ==
    /\ ~reply.raised
    /\ IF Truthy(Get(info, "match"))
       THEN IF Val(info.plan).is_cluster
            THEN /\ reply.fields.reply_type = "plan_cluster"
                 /\ reply.text.builder = "plan_cluster"
            ELSE /\ reply.fields.reply_type \in {"plan_llm", "plan"}
                 /\ reply.text.builder = reply.fields.reply_type
       ELSE IF Truthy(Get(info, "operation"))
       THEN /\ reply.fields.reply_type = "operation"
            /\ reply.fields.operation = Val(info.operation)
            /\ reply.text.builder = Val(info.operation)
       ELSE /\ reply.fields.reply_type = "no_match"
            /\ reply.text.builder \in {"no_match_plain", "no_match_suggestions"}

\* C23 as stated: for every non-skipped message one reply text and one
\* reply_type are produced, by the dispatch: accepted match on a cluster ->
\* plan_cluster; on a plain plan -> plan_llm or plan; operation without match
\* -> the builder of the operation, reply_type operation; neither -> no_match.
C23_AsStated ==
    ~IsNone(g_out) => DispatchedAsStated(Val(g_out).match_info, Val(g_out).reply)

-----------------------------------------------------------------------------
(* build_no_match_response_text alone, on potential_matches lists as the    *)
(* semantic engine returns them: distinct ids, non-increasing confidence    *)

MaxMatches == 10

\* the k-th candidate of a ranking of MaxMatches candidates; the confidences
\* decrease in pairs, so that ties occur
Candidate(k) ==
    [plan_id |-> k, plan |-> Some([id |-> k, is_cluster |-> FALSE]),
     confidence |-> 1000 - 40 * ((k + 1) \div 2)]

\* the elements of the set of numbers S in increasing order
RECURSIVE Ascending(_)
Ascending(S) ==
    IF S = {} THEN <<>>
    ELSE LET m == CHOOSE x \in S : \A y \in S : x <= y
         IN  <<m>> \o Ascending(S \ {m})

\* None (a result without potential_matches) and every sub-ranking
NoMatchInputs ==
    {None} \cup {Some([i \in 1..Len(Ascending(S)) |-> Candidate(Ascending(S)[i])]) :
                    S \in SUBSET (1..MaxMatches)}

InitNoMatch ==
    /\ ProcessIdle
    /\ g_in \in {Some([potential_matches |-> x]) : x \in NoMatchInputs}
    /\ g_out = None

RunNoMatch ==
    /\ IsNone(g_out)
    /\ g_out' = Some(build_no_match_response_text(Val(g_in).potential_matches))
    /\ UNCHANGED <<g_in, pvars>>

NextNoMatch == RunNoMatch

SpecNoMatch == InitNoMatch /\ [][NextNoMatch]_vars

\* C24: the no-match reply is the plain 'please rephrase' text exactly when
\* potential_matches is empty or absent; otherwise it lists the first
\* min(8, n) entries of potential_matches in their order, which are entries
\* of highest confidence: no entry left out has a higher confidence than one
\* listed.
C24_NoMatchListsTopEight ==
    ~IsNone(g_out) =>
        LET pm == Val(g_in).potential_matches
            empty == IsNone(pm) \/ Val(pm) = <<>>
            out == Val(g_out)
        IN  /\ out.builder = "no_match_plain" <=> empty
            /\ empty => out.links = <<>>
            /\ ~empty =>
                  /\ out.builder = "no_match_suggestions"
                  /\ Len(out.links) <= 8
                  /\ Len(out.links) = IF Len(Val(pm)) < 8 THEN Len(Val(pm)) ELSE 8
                  /\ \A i \in 1..Len(out.links) : out.links[i] = Val(pm)[i].plan_id
                  /\ \A i \in 1..Len(out.links) :
                        \A k \in (Len(out.links) + 1)..Len(Val(pm)) :
                            Val(pm)[k].confidence <= Val(pm)[i].confidence

C24_Witness ==
    /\ ~IsNone(g_out)
    /\ ~IsNone(Val(g_in).potential_matches)
    /\ Len(Val(Val(g_in).potential_matches)) = 10
    /\ Val(g_out).links = <<1, 2, 3, 4, 5, 6, 7, 8>>

-----------------------------------------------------------------------------
(* C25 *)

\* the llm call of the current invocation failed or returned nothing
LlmGaveNothing ==
    \E k \in 1..Len(log) : log[k].op = "llm" /\ ~Truthy(log[k].outcome)

-----------------------------------------------------------------------------
(* C26 *)

\* the three cases of a match result
IsMatchCase(info) == Truthy(Get(info, "match")) /\ ~Truthy(Get(info, "operation"))

IsOperationCase(info) == Truthy(Get(info, "operation")) /\ ~Truthy(Get(info, "match"))

IsNoMatchCase(info) == ~Truthy(Get(info, "match")) /\ ~Truthy(Get(info, "operation"))

\* the result of the chain is in match_info and process_post is using it
ChainResultInUse ==
    /\ Invoked # <<>>
    /\ pc \in {"write_decision", "build_reply", "reply", "update", "returned"}

\* C26: the match result process_post works with is a match (operation
\* empty), an operation (match empty) or no match (both empty), never a
\* result with both match and operation set; the same holds of what each
\* rule of the chain returns on every text and of the statistical strategy on
\* every similarity vector.
C26_MatchXorOperation ==
    /\ ChainResultInUse =>
          /\ IsMatchCase(match_info) \/ IsOperationCase(match_info) \/ IsNoMatchCase(match_info)
          /\ ~(Truthy(Get(match_info, "match")) /\ Truthy(Get(match_info, "operation")))
    /\ pc = "match" =>
          LET flags == process_flags(get_trigger_line(post.text))
          IN  ~flags.error =>
                /\ \A name \in {"match_verbatim", "request_plan_list", "request_state_of_race", "match_display_title"} :
                      LET r == RuleResult(name, Verbatims, Plans, flags.remaining_text, flags.options)
                      IN  ~IsNone(r) => ~IsNoMatchCase(Val(r)) /\ (IsMatchCase(Val(r)) \/ IsOperationCase(Val(r)))
                /\ \A sims \in SimsChoices :
                      LET r == matching_strategy("lsa_gensim_v3", Plans, ModelPlanIds, sims)
                      IN  ~r.raised => IsMatchCase(r.value) \/ IsNoMatchCase(r.value)

C26_Witness ==
    /\ ChainResultInUse
    /\ pc = "returned"
    /\ IsOperationCase(match_info)
    /\ Get(match_info, "operation") = Some("all_the_plans")
    /\ ReplyCalled

-----------------------------------------------------------------------------
(* C27 *)

\* the corpus position the ranking takes for a document id: the first
\* position among those of the id that hold the id's highest similarity
RankedPosition(plan_ids, sims, id) ==
    CHOOSE i \in 1..Len(sims) :
        /\ plan_ids[i] = id
        /\ \A k \in 1..Len(sims) : plan_ids[k] = id => sims[k] <= sims[i]
        /\ \A k \in 1..(i - 1) : plan_ids[k] = id => sims[k] < sims[i]

\* entries of the returned ranking with identical similarity are in corpus
\* order
TiesInCorpusOrder(plan_ids, sims, entries) ==
    \A k, l \in 1..Len(entries) :
        (k < l /\ entries[k].confidence = entries[l].confidence) =>
            RankedPosition(plan_ids, sims, entries[k].plan_id)
                < RankedPosition(plan_ids, sims, entries[l].plan_id)

\* the plan token_sort_ratio returns is the first of the plans list among
\* those with the highest score
FirstOfHighestReturned(plans, scores, value) ==
    /\ value.plan = Some(plans[FirstMax(scores)])
    /\ value.confidence = Some(scores[FirstMax(scores)])

-----------------------------------------------------------------------------
(* C28 *)

\* the id of the message is in the processed-set from the first step of the
\* invocation on, before the skip checks and before any call, and every id
\* process_post was ever invoked with is still in it
MarkedBeforeAnything ==
    /\ pc # "idle" => post.id \in post_ids_processed
    /\ pc = "skip_check" => log = <<>>
    /\ seen \subseteq post_ids_processed

\* an invocation with a message seen before in the run, however its earlier
\* invocation went (skipped, aborted with the reply's fatal error, or
\* completed), is dropped: it returns at once, writes nothing and calls
\* nothing; the processed-set never loses an id
SeenAgainIsDropped ==
    /\ post_ids_processed \subseteq post_ids_processed'
    /\ (Ended /\ pc' # "idle" /\ log' = <<>> /\ post'.id \in seen) =>
          /\ pc' = "returned"
          /\ again'
          /\ posts_db' = posts_db
          /\ post_ids_processed' = post_ids_processed
    /\ (Ended /\ (~IsNone(skip_reason) \/ exc = Some("APIException"))
          /\ post'.id = post.id) =>
          /\ pc' = "returned"
          /\ log' = <<>>
          /\ posts_db' = posts_db

\* C28: the message id is in the processed-set before any skip check,
\* matching or external call and stays there whatever happens next; a
\* message that was skipped, or whose processing aborted with the fatal reply
\* error, is dropped without any write or reply when it is seen again in the
\* same run.
C28_MarkedFirstAndForGood == [](MarkedBeforeAnything) /\ [][SeenAgainIsDropped]_vars

\* the message seen again was skipped by its first invocation
C28_Witness ==
    /\ again
    /\ pc = "returned"
    /\ log = <<>>
    /\ ~IsNone(posts_db[post.id])
    /\ Val(posts_db[post.id]).skipped
    /\ Val(posts_db[post.id]).skip_reason = Some("trigger_not_found")
    /\ Cardinality(post_ids_processed) > 1

-----------------------------------------------------------------------------
(* C29 *)

\* the skip checks on lock and author, applied to a reply target
MayBeRepliedTo(target) ==
    /\ ~target.locked
    /\ IsNone(target.author) \/ ~Contains(Lower(Val(target.author)), "warrenplanbot")

\* C29 as stated: process_post never sends a reply to a target that is locked
\* or authored by the bot itself, on any path, the path where the 'parent'
\* flag swaps the reply target to the parent included.
C29_AsStated ==
    CallsOf({"post.reply"}) # <<>> =>
        MayBeRepliedTo(ReplyTarget(post, "parent" \in options))

-----------------------------------------------------------------------------
(* C30 *)

\* the update of the current invocation has been made
Updated == ~again /\ pc = "returned" /\ ReplyCalled

\* C30 as stated: post.reply is invoked if and only if send is true and
\* simulate is false, at most once per invocation; the 'replied' field
\* written in the update is true when the reply was sent or simulated and is
\* the boolean false in every other case (suppressed reply or deleted target).
C30_AsStated ==
    /\ Len(CallsOf({"post.reply"})) <= 1
    /\ (ReplyCalled /\ ~again) =>
          (CallsOf({"post.reply"}) # <<>> <=> (args.send /\ ~args.simulate))
    /\ ~ReplyCalled => CallsOf({"post.reply"}) = <<>>
    /\ Updated =>
          update.replied = (IF ReplyMade THEN Some(TRUE) ELSE Some(FALSE))

-----------------------------------------------------------------------------
(* process_post twice on the same message, by two runs of the bot that get  *)
(* the same answers from the similarity index, the llm and post.reply: the  *)
(* first run with skip_tracking=False, the second with skip_tracking=True   *)

\* g_in: the message, the send and simulate arguments and what the
\* environment answers; g_out: what the first run did and the store it left
\* (two of the similarity vectors, one with a plan above the threshold and one
\* with no plan above any threshold; the llm answers with a text or nothing)
TrackingInputs ==
    [post : Posts, send : BOOLEAN, simulate : BOOLEAN,
     sims : {<<300, 900, 200, 0>>, <<120, 0, -50, 100>>},
     llm : {None, Some("llm text")}, outcome : ReplyOutcomes]

InitTracking ==
    /\ ProcessIdle
    /\ g_in \in {Some(x) : x \in TrackingInputs}
    /\ g_out = None

\* process_post(post, send=..., simulate=..., skip_tracking=False)
EnterTracked ==
    /\ pc = "idle"
    /\ IsNone(g_out)
    /\ Enter(Val(g_in).post)
    /\ args' = [send |-> Val(g_in).send, simulate |-> Val(g_in).simulate,
                skip_tracking |-> FALSE]

\* process_post(post, send=..., simulate=..., skip_tracking=True)
EnterUntracked ==
    /\ pc = "idle"
    /\ ~IsNone(g_out)
    /\ Enter(Val(g_in).post)
    /\ args' = [send |-> Val(g_in).send, simulate |-> Val(g_in).simulate,
                skip_tracking |-> TRUE]

\* Match, the similarity index answering Val(g_in).sims
MatchWithSims ==
    /\ Match
    /\ LET flags == process_flags(get_trigger_line(post.text))
       IN  ~flags.error =>
              LET r == MatchChain(Verbatims, Plans, flags.remaining_text,
                                  flags.options, "lsa_gensim_v3", ModelPlanIds,
                                  Val(g_in).sims)
              IN  /\ log' = log \o StrategyCalls(r.invoked)
                  /\ IF r.raised THEN pc' = "raised" ELSE match_info' = r.info

\* BuildReply, the llm answering Val(g_in).llm
BuildReplyWithLlm ==
    /\ BuildReply
    /\ (pc' = "reply" /\ CallsLlm(match_info)) =>
          log'[Len(log')].outcome = Val(g_in).llm

\* Reply, post.reply ending as Val(g_in).outcome
ReplyWithOutcome ==
    /\ Reply
    /\ CallsPostReply(args) => log'[Len(log')].outcome = Val(g_in).outcome

\* what an invocation did besides the audit store: how it ended, its skip
\* decision, the strategies it invoked and their result, the reply it built
\* and the reply calls it made
Behaviour ==
    [pc |-> pc, exc |-> exc, skip_reason |-> skip_reason, post_text |-> post_text,
     options |-> options, invoked |-> Invoked, match_info |-> match_info,
     reply_string |-> reply_string, did_reply |-> did_reply, update |-> update,
     calls |-> CallsOf({"llm", "reply", "post.reply"})]

\* the first run is over and a new run of the bot starts, with an empty
\* processed-set and the audit store as the first run left it
Restart ==
    /\ Ended
    /\ IsNone(g_out)
    /\ g_out' = Some([behaviour |-> Behaviour, posts_db |-> posts_db,
                      writes |-> Len(Writes)])
    /\ post_ids_processed' = {}
    /\ seen' = {}
    /\ pc' = "idle"
    /\ log' = <<>>
    /\ UNCHANGED <<posts_db, post, args, skip_reason, post_text, options, match_info,
                   update, reply_string, did_reply, exc, again, g_in>>

NextTracking ==
    \/ EnterTracked
    \/ EnterUntracked
    \/ Restart
    \/ SkipCheck
    \/ MatchWithSims
    \/ WriteDecision
    \/ BuildReplyWithLlm
    \/ ReplyWithOutcome
    \/ Update

SpecTracking == InitTracking /\ [][NextTracking]_vars

-----------------------------------------------------------------------------
(* C31 *)

\* the invocation with skip_tracking=True is under way or over
Untracked == ~IsNone(g_out) /\ pc # "idle" /\ args.skip_tracking

\* C31: with skip_tracking=true process_post performs no audit-store
\* operation (no set, no update; the store stays as it was) on any path,
\* skipped or not, and when it has ended, its skip decision, the strategies
\* invoked and their result, the reply built, the reply calls and the way it
\* ended are those of the invocation with skip_tracking=false on the same
\* message with the same answers of the environment.
C31_UntrackedSameBehaviourNoStore ==
    Untracked =>
        /\ Writes = <<>>
        /\ posts_db = Val(g_out).posts_db
        /\ Ended => Behaviour = Val(g_out).behaviour

\* a message that is answered: the tracked run made its set and its update,
\* the untracked one the same reply and no store call
C31_Witness ==
    /\ Untracked
    /\ pc = "returned"
    /\ PostReplyOutcome = "ok"
    /\ Val(g_out).writes = 2
    /\ Writes = <<>>
    /\ Behaviour = Val(g_out).behaviour

====
